---- MODULE Spec2Model ----
(***************************************************************************)
(* Model of the test-execution pipeline of server.js: the handler of       *)
(* POST /api/run-tests (workspace materialisation, language routing, the   *)
(* Python and C# provisioning / run / report stages and the event stream   *)
(* written to the response), alone, with a client that disconnects, and    *)
(* next to a second request served at the same time.                       *)
(*                                                                         *)
(* Strings are sequences of tokens.  A token is one character ("a", "b",   *)
(* "/", ".") or an indivisible block of characters that the model never   *)
(* needs to look into ("requirements.txt", ".py", ".cs", ".csproj", the    *)
(* name mkdtemp gave the workspace, ...).  No token is a concatenation of  *)
(* other tokens, so equality, prefix, suffix and substring tests on token  *)
(* sequences agree with the same tests on the characters.                  *)
(***************************************************************************)
EXTENDS Integers, Sequences, FiniteSets, TLC

VARIABLES
  filesType,    \* what req.body.files is: "array", or why it is not one
  files,        \* req.body.files: the manifest of the request
  browser,      \* req.body.browser: the requested engine ("missing" if absent)
  headed,       \* req.body.headed (false if absent)
  selectedBrowser, \* the validated engine, "none" before it is computed
  language,     \* the detected family, "none" before it is computed
  pc,           \* the await at which the handler is suspended
  idx,          \* number of manifest entries the write loop has completed
  tempDir,      \* "none" before mkdtemp, then the directory name it made
  fsFiles,      \* files on disk: set of [loc, content], one per location
  fsDirs,       \* directories on disk (locations)
  headersSent,  \* res.headersSent
  ended,        \* res.end() / res.json() has been called
  httpStatus,   \* 0 until res.status(500).json(...) is called
  stream,       \* events written with res.write before the response ended
  lateWrites,   \* events passed to res.write after the response ended
  procs,        \* the subprocesses spawned so far, in spawn order
  pipOutput,    \* chunks pip wrote to stdout (their numbers)
  pipError,     \* chunks pip wrote to stderr (their numbers)
  artifact,     \* the report artifact the test run left in the workspace
  clientLeftAt, \* "never", or the await the handler was suspended at when
                \* the client closed the connection of the request
  other,        \* a second request served at the same time (PairSpec)
  archive,      \* the entry names POST /api/download-zip appended for files
  ui            \* the state of the frontend that runs the tests (UiSpec)

vars == <<filesType, files, browser, headed, archive, ui, selectedBrowser, language, pc, idx, tempDir,
          fsFiles, fsDirs, headersSent, ended, httpStatus, stream, lateWrites,
          procs, pipOutput, pipError, artifact, clientLeftAt, other>>

(***************************************************************************)
(* Bounds                                                                  *)
(***************************************************************************)
MaxNameLen == 4      \* longest FileEntry.name explored by FsSpec
MaxPathLen == 2      \* longest FileEntry.path explored by FsSpec
MaxChunks == 1       \* stdout/stderr chunks one subprocess may produce
MaxExitCode == 1     \* largest exit code of a subprocess
MaxManifestLen == 2  \* longest manifest explored by LangSpec
MaxTests == 1           \* most test records in a report artifact

MaxDuration == 1        \* longest duration of a phase of a test

MaxFracLen == 2         \* most digits of the fraction of a duration string

MaxColons == 3          \* most ':' in a duration string that is not H:M:S

MaxResults == 2         \* most results of a TRX document with messages

(***************************************************************************)
(* Strings                                                                 *)
(***************************************************************************)
Chars == {"a", "b", "/", "."}

Contents == {"c1", "c2"}

StrsUpTo(n) == UNION {[1..k -> Chars] : k \in 0..n}

Dot == <<".">>

DotDot == <<".", ".">>

\* String.prototype.includes for a one-token needle
Includes(s, c) == \E i \in 1..Len(s) : s[i] = c

\* String.prototype.startsWith
StartsWith(s, p) == Len(p) <= Len(s) /\ SubSeq(s, 1, Len(p)) = p

\* String.prototype.endsWith for a one-token needle
EndsWith(s, c) == Len(s) > 0 /\ s[Len(s)] = c

RECURSIVE DropLeadingSlashes(_)
DropLeadingSlashes(s) ==
  IF s # <<>> /\ Head(s) = "/" THEN DropLeadingSlashes(Tail(s)) ELSE s

RECURSIVE DropTrailingSlashes(_)
DropTrailingSlashes(s) ==
  IF s # <<>> /\ s[Len(s)] = "/"
  THEN DropTrailingSlashes(SubSeq(s, 1, Len(s) - 1))
  ELSE s

\* .replace(/^\/+|\/+$/g, '')
CleanPath(s) == DropTrailingSlashes(DropLeadingSlashes(s))

\* s.split('/'): the segments between separators, empty ones included
RECURSIVE SplitSlash(_)
SplitSlash(s) ==
  IF ~Includes(s, "/") THEN <<s>>
  ELSE LET i == CHOOSE j \in 1..Len(s) :
                   s[j] = "/" /\ \A k \in 1..(j - 1) : s[k] # "/"
       IN <<SubSeq(s, 1, i - 1)>> \o SplitSlash(SubSeq(s, i + 1, Len(s)))

\* parts.join('/')
RECURSIVE JoinSlash(_)
JoinSlash(parts) ==
  IF parts = <<>> THEN <<>>
  ELSE IF Len(parts) = 1 THEN parts[1]
  ELSE parts[1] \o <<"/">> \o JoinSlash(Tail(parts))

(***************************************************************************)
(* path.join of Node (POSIX): the non-empty arguments joined with "/" and  *)
(* normalised: empty and "." segments dropped, ".." cancelling the segment *)
(* before it, ".." kept in front of a relative path and dropped at the     *)
(* root of an absolute one, a trailing separator kept.                     *)
(***************************************************************************)
RECURSIVE NormalizeSegs(_, _, _)
NormalizeSegs(segs, acc, allowAboveRoot) ==
  IF segs = <<>> THEN acc
  ELSE LET s == Head(segs)
           rest == Tail(segs)
       IN IF s = <<>> \/ s = Dot
          THEN NormalizeSegs(rest, acc, allowAboveRoot)
          ELSE IF s = DotDot
          THEN IF acc # <<>> /\ acc[Len(acc)] # DotDot
               THEN NormalizeSegs(rest, SubSeq(acc, 1, Len(acc) - 1), allowAboveRoot)
               ELSE IF allowAboveRoot
               THEN NormalizeSegs(rest, Append(acc, DotDot), allowAboveRoot)
               ELSE NormalizeSegs(rest, acc, allowAboveRoot)
          ELSE NormalizeSegs(rest, Append(acc, s), allowAboveRoot)

Normalize(p) ==
  IF p = <<>> THEN Dot
  ELSE LET isAbsolute == p[1] = "/"
           trailingSeparator == p[Len(p)] = "/"
           body == JoinSlash(NormalizeSegs(SplitSlash(p), <<>>, ~isAbsolute))
       IN IF body = <<>>
          THEN (IF isAbsolute THEN <<"/">>
                ELSE IF trailingSeparator THEN <<".", "/">> ELSE Dot)
          ELSE (IF isAbsolute THEN <<"/">> ELSE <<>>) \o body
               \o (IF trailingSeparator THEN <<"/">> ELSE <<>>)

PathJoin(a, b) ==
  IF a = <<>> /\ b = <<>> THEN Dot
  ELSE IF a = <<>> THEN Normalize(b)
  ELSE IF b = <<>> THEN Normalize(a)
  ELSE Normalize(a \o <<"/">> \o b)

(***************************************************************************)
(* The workspace: join(tmpdir(), 'qa-framework-XXXXXX')                    *)
(***************************************************************************)
\* the names mkdtemp can give a workspace
TempNames == {"qa-framework-X", "qa-framework-Y"}

WorkDir(name) == <<"/", "tmp", "/", name>>

\* the workspace of the request
TempDir == WorkDir(tempDir)

\* A location on disk: the non-empty segments of an absolute path
Loc(p) == SelectSeq(SplitSlash(p), LAMBDA s : s # <<>>)

\* Loc(WorkDir(name))
WorkLoc(name) == <<<<"tmp">>, <<name>>>>

TempLoc == WorkLoc(tempDir)

Prefixes(loc) == {SubSeq(loc, 1, k) : k \in 0..Len(loc)}

\* A location strictly inside the workspace directory
UnderRoot(loc) ==
  Len(loc) > Len(TempLoc) /\ SubSeq(loc, 1, Len(TempLoc)) = TempLoc

RelOf(loc) == SubSeq(loc, Len(TempLoc) + 1, Len(loc))

\* mutant: mkdtemp handing out a name whether or not it is taken
AnyNames(dirs) == TempNames

\* mkdtemp creates a directory that did not exist: the names it can return
FreshNames(dirs) == {n \in TempNames : WorkLoc(n) \notin dirs}

(***************************************************************************)
(* The write loop of the run-tests handler, one FileEntry                  *)
(***************************************************************************)
\* the name left after the directory part is split off
EntryFileName(file) ==
  IF Includes(file.name, "/")
  THEN LET parts == SplitSlash(file.name) IN parts[Len(parts)]
  ELSE file.name

\* the directory part embedded in the name ('' when it has none)
EntryFileNamePath(file) ==
  IF Includes(file.name, "/")
  THEN LET parts == SplitSlash(file.name)
       IN JoinSlash(SubSeq(parts, 1, Len(parts) - 1))
  ELSE <<>>

\* the directory the entry is written to, relative to the workspace
EntryFilePath(file) ==
  LET filePath == CleanPath(file.path)
  IN IF Includes(file.name, "/")
     THEN LET parts == SplitSlash(file.name)
              fileNamePath == JoinSlash(SubSeq(parts, 1, Len(parts) - 1))
          IN IF filePath = <<>> \/ filePath = fileNamePath
                \/ StartsWith(fileNamePath, filePath)
             THEN fileNamePath
             ELSE PathJoin(filePath, fileNamePath)
     ELSE filePath

EntryFullDir(file) ==
  IF EntryFilePath(file) # <<>>
  THEN PathJoin(TempDir, EntryFilePath(file))
  ELSE TempDir

EntryFullPath(file) == PathJoin(EntryFullDir(file), EntryFileName(file))

\* mkdir(fullDir, {recursive: true}) fails when a component is a file
MkdirFails(file) ==
  /\ EntryFilePath(file) # <<>>
  /\ \E p \in Prefixes(Loc(EntryFullDir(file))) :
        \E f \in fsFiles : f.loc = p

DirsAfterMkdir(file) ==
  IF EntryFilePath(file) # <<>>
  THEN fsDirs \cup Prefixes(Loc(EntryFullDir(file)))
  ELSE fsDirs

\* writeFile(fullPath, content) fails when the target is a directory
WriteFails(file) == Loc(EntryFullPath(file)) \in DirsAfterMkdir(file)

FilesAfterWrite(file) ==
  {f \in fsFiles : f.loc # Loc(EntryFullPath(file))}
    \cup {[loc |-> Loc(EntryFullPath(file)), content |-> file.content]}

(***************************************************************************)
(* Manifests of the pipeline specification                                 *)
(***************************************************************************)
ReqTxt == [name |-> <<"requirements.txt">>, path |-> <<>>, content |-> "c1"]

TestPy == [name |-> <<"t", ".py">>, path |-> <<"a">>, content |-> "c2"]

CsProj == [name |-> <<"p", ".csproj">>, path |-> <<>>, content |-> "c1"]

TestCs == [name |-> <<"t", ".cs">>, path |-> <<>>, content |-> "c2"]

UpperProj == [name |-> <<"p", ".CSPROJ">>, path |-> <<>>, content |-> "c1"]

Escaping == [name |-> <<"t", ".py">>, path |-> DotDot, content |-> "c2"]

Blocker == [name |-> <<"a">>, path |-> <<>>, content |-> "c1"]

Manifests ==
  { <<>>, <<ReqTxt, TestPy>>, <<TestPy>>, <<CsProj, TestCs>>, <<TestCs>>,
    <<UpperProj, TestCs>>, <<ReqTxt, Escaping>>, <<Blocker, TestPy>> }

\* names and paths of the manifests of the detection specification: with
\* and without the marks of either family, at the end and in the middle
LangNames ==
  { <<>>, <<"a">>, <<"t", ".py">>, <<"t", ".PY">>, <<"t", ".cs">>,
    <<"p", ".csproj">>, <<"p", ".CSPROJ">>, <<"requirements.txt">>,
    <<".cs", "a">>, <<".csproj", "a">> }

LangPaths == { <<>>, <<"a">>, <<"a", ".cs">>, <<"requirements.txt">> }

LangEntries == [name : LangNames, path : LangPaths, content : {"c1"}]

LangManifests == UNION {[1..k -> LangEntries] : k \in 0..MaxManifestLen}

\* entries of the manifests of the project-path specification: the project
\* descriptor named in the workspace root or with a directory in its name,
\* with and without a path; an upper-case extension; a source file alone
ProjNames ==
  { <<"p", ".csproj">>, <<"a", "/", "p", ".csproj">>,
    <<"b", "/", "p", ".csproj">>, <<"p", ".CSPROJ">>, <<"t", ".cs">> }

ProjPaths == { <<>>, <<"a">>, <<"a", "/", "b">> }

ProjEntries == [name : ProjNames, path : ProjPaths, content : {"c1"}]

\* the single-entry manifests of the materialisation specification
FsEntries ==
  [name : StrsUpTo(MaxNameLen), path : StrsUpTo(MaxPathLen), content : Contents]

(***************************************************************************)
(* detectLanguage                                                          *)
(***************************************************************************)
LowerTok(t) ==
  IF t = ".CSPROJ" THEN ".csproj" ELSE IF t = ".PY" THEN ".py" ELSE t

\* String.prototype.toLowerCase
ToLower(s) == [i \in 1..Len(s) |-> LowerTok(s[i])]

hasCSharp(fs) ==
  \E i \in 1..Len(fs) :
    LET n == ToLower(fs[i].name)
        p == ToLower(fs[i].path)
        full == p \o n
    IN \/ EndsWith(n, ".csproj")
       \/ Includes(full, ".csproj")
       \/ EndsWith(n, ".cs")
       \/ EndsWith(full, ".cs")

hasPython(fs) ==
  \E i \in 1..Len(fs) :
    LET n == ToLower(fs[i].name)
        p == ToLower(fs[i].path)
        full == ToLower(p \o n)
    IN \/ EndsWith(n, ".py")
       \/ EndsWith(full, ".py")
       \/ n = <<"requirements.txt">>
       \/ Includes(full, "requirements.txt")

\* mutant: the Python marks looked for first
detectLanguagePythonFirst(fs) ==
  IF hasPython(fs) THEN "python"
  ELSE IF hasCSharp(fs) THEN "csharp"
  ELSE "python"

\* mutant: no default family when no entry matches
detectLanguageNoDefault(fs) ==
  IF hasCSharp(fs) THEN "csharp"
  ELSE IF hasPython(fs) THEN "python"
  ELSE "unknown"

detectLanguage(fs) ==
  IF hasCSharp(fs) THEN "csharp"
  ELSE IF hasPython(fs) THEN "python"
  ELSE "python"

\* files.find(f => f.name.endsWith('.csproj')): its index, 0 when none
csprojIndex(fs) ==
  IF \E i \in 1..Len(fs) : EndsWith(fs[i].name, ".csproj")
  THEN CHOOSE i \in 1..Len(fs) :
         /\ EndsWith(fs[i].name, ".csproj")
         /\ \A j \in 1..(i - 1) : ~EndsWith(fs[j].name, ".csproj")
  ELSE 0

(***************************************************************************)
(* Validation of the requested engine                                      *)
(***************************************************************************)
\* values of req.body.browser: an engine, another string, absent
Browsers == {"firefox", "edge", "missing"}

validBrowsers == {"chromium", "firefox", "webkit"}

\* mutant: the requested value used without validation
SelectBrowserRaw(b) == b

\* the destructuring default applies to an absent value
SelectBrowser(b) ==
  LET given == IF b = "missing" THEN "chromium" ELSE b
  IN IF given \in validBrowsers THEN given ELSE "chromium"

(***************************************************************************)
(* Subprocesses and stream events                                          *)
(***************************************************************************)
NullCode == -1     \* code === null: the process was ended by a signal

ErrnoCode == -2    \* the code 'close' carries after a failed spawn

ExitCodes == 0..MaxExitCode

Codes == ExitCodes \cup {NullCode}

\* A subprocess record: chunks counts the chunks it wrote to stdout and
\* stderr, errChunks those of them written to stderr; args, env and
\* reportPath are kept for the test run only (args: the argument words
\* without their values, the engine's value being the field browser; env:
\* what the spawn adds to process.env; reportPath: where the report goes).
\* what becomes of a spawned process: it runs and exits, it runs and never
\* exits, or it cannot be spawned (the child emits 'error')
Fates == {"exits", "hangs", "nospawn"}

\* a spawn without an env option
NoEnv == [BROWSER |-> "none", HEADED |-> "none"]

NoChild ==
  [stage |-> "none", st |-> "none", fate |-> "none", chunks |-> 0,
   errChunks |-> 0, exitCode |-> NullCode, browser |-> "none",
   args |-> {}, env |-> NoEnv, reportPath |-> <<>>]

\* spawn of a command that is given the engine b ("none": not given one)
SpawnFor(stage, fate, b) ==
  [stage |-> stage, st |-> "running", fate |-> fate, chunks |-> 0,
   errChunks |-> 0, exitCode |-> NullCode, browser |-> b,
   args |-> {}, env |-> NoEnv, reportPath |-> <<>>]

Spawn(stage, fate) == SpawnFor(stage, fate, "none")

\* pytestArgs: python -m pytest -v --tb=short --browser=<b> --json-report
\* --json-report-file=<tempDir>/report.json --json-report-indent=2 [--headed]
SpawnPytest(fate, b, h, dir) ==
  [SpawnFor("pytest", fate, b) EXCEPT
     !.args = {"-m", "pytest", "-v", "--tb=short", "--browser=",
               "--json-report", "--json-report-file=",
               "--json-report-indent=2"}
              \cup (IF h THEN {"--headed"} ELSE {}),
     !.reportPath = Append(dir, <<"report.json">>)]

\* dotnet test <csproj> -c Release --no-build --logger trx
\* --results-directory <tempDir>/TestResults, with BROWSER and HEADED in env
SpawnDotnetTest(fate, b, h, dir) ==
  [SpawnFor("dotnetTest", fate, b) EXCEPT
     !.args = {"test", "-c", "Release", "--no-build", "--logger", "trx",
               "--results-directory"},
     !.env = [BROWSER |-> b, HEADED |-> IF h THEN "true" ELSE "false"],
     !.reportPath = Append(dir, <<"TestResults">>)]

Closed(c, code) == [c EXCEPT !.st = "closed", !.exitCode = code]

Errored(c) == [c EXCEPT !.st = "errored"]

\* an aggregate field the artifact does not have (undefined)
NoCount == -1

\* the aggregate fields of an artifact without any: report.summary is
\* undefined, the TRX document has no Counters element
NoSummary ==
  [total |-> NoCount, passed |-> NoCount, failed |-> NoCount,
   skipped |-> NoCount, executed |-> NoCount]

\* the data of an event that is not a report has no summary
NoReportSummary ==
  [total |-> NoCount, passed |-> NoCount, failed |-> NoCount,
   skipped |-> NoCount]

\* sendEvent(type, data): data is abbreviated to a tag and a number
\* and, for the messages that name the engine, that engine
EvFor(type, tag, code, b) ==
  [type |-> type, tag |-> tag, code |-> code, browser |-> b, tests |-> <<>>,
   summary |-> NoReportSummary]

\* sendEvent('report', report): the summary counts and the per-test list of
\* the report are kept
EvReportWith(tag, tests, summary) ==
  [type |-> "report", tag |-> tag, code |-> 0, browser |-> "none",
   tests |-> tests, summary |-> summary]

Ev(type, tag, code) == EvFor(type, tag, code, "none")

IsTerminal(e) == e.type \in {"complete", "error"}

IsLog(e) == e.type \in {"pip", "test"}

(***************************************************************************)
(* Report artifacts and their normalisation                                *)
(***************************************************************************)
\* what is found at the report location: its kind ("none" before the test
\* run ended, "absent", "notrx", "malformed", "ok"), its test records and
\* its aggregate fields
ArtifactWith(kind, tests, summary) ==
  [kind |-> kind, tests |-> tests, summary |-> summary]

Artifact(kind, tests) == ArtifactWith(kind, tests, NoSummary)

NoArtifact == Artifact("none", <<>>)

\* outcome values pytest-json-report writes for a test
PytestOutcomes == {"passed", "failed", "skipped", "error", "xfailed"}

\* outcome attributes of UnitTestResult elements in a TRX file
TrxOutcomes == {"Passed", "Failed", "NotExecuted"}

TestLists(outcomes) ==
  UNION {[1..k -> [outcome : outcomes]] : k \in 0..MaxTests}

\* t.call?.duration or t.setup?.duration when the phase, or its duration,
\* is not in the test record: undefined
NoDuration == -1

Durations == 0..MaxDuration

Phases == Durations \cup {NoDuration}

\* the test records of report.json: the outcome and the durations of the
\* setup and the call phase
PytestTestLists(outcomes, phases) ==
  UNION {[1..k -> [outcome : outcomes, call : phases, setup : phases]] :
           k \in 0..MaxTests}

\* a || b on durations: undefined and 0 are falsy
JsOr(a, b) == IF a \in {NoDuration, 0} THEN b ELSE a

\* t.call?.duration || t.setup?.duration || 0
ReportDuration(t) == JsOr(JsOr(t.call, t.setup), 0)

\* number of records of a list with one of the outcomes
CountOutcome(tests, outcomes) ==
  Cardinality({i \in 1..Len(tests) : tests[i].outcome \in outcomes})

\* a key of report.summary: pytest-json-report leaves out the outcomes that
\* no test had
SummaryKey(n) == IF n = 0 THEN NoCount ELSE n

\* report.summary as pytest-json-report writes it for a list of tests
PytestSummary(tests) ==
  [total |-> Len(tests),
   passed |-> SummaryKey(CountOutcome(tests, {"passed"})),
   failed |-> SummaryKey(CountOutcome(tests, {"failed"})),
   skipped |-> SummaryKey(CountOutcome(tests, {"skipped"})),
   executed |-> NoCount]

\* the Counters element as the TRX logger writes it for a list of results
TrxCounters(tests) ==
  [total |-> Len(tests),
   passed |-> CountOutcome(tests, {"Passed"}),
   failed |-> CountOutcome(tests, {"Failed"}),
   skipped |-> NoCount,
   executed |-> Len(tests) - CountOutcome(tests, {"NotExecuted"})]

\* summary: {total: report.summary?.total || 0, passed: ..., failed: ...,
\*   skipped: report.summary?.skipped || 0}
PytestReportSummary(art) ==
  [total |-> JsOr(art.summary.total, 0),
   passed |-> JsOr(art.summary.passed, 0),
   failed |-> JsOr(art.summary.failed, 0),
   skipped |-> JsOr(art.summary.skipped, 0)]

\* parseTrxReport: the counts are 0 unless the Counters element matches;
\* skipped is total - executed
TrxReportSummary(art) ==
  IF art.summary.total # NoCount
  THEN [total |-> art.summary.total,
        passed |-> art.summary.passed,
        failed |-> art.summary.failed,
        skipped |-> art.summary.total - art.summary.executed]
  ELSE [total |-> 0, passed |-> 0, failed |-> 0, skipped |-> 0]

(***************************************************************************)
(* Duration attributes of a TRX document: strings of characters.  Seconds  *)
(* are fixed-point numbers, in units of 10^-MaxFracLen seconds.            *)
(***************************************************************************)
Scale == 10 ^ MaxFracLen

\* what parseFloat returns for a string that does not start with a number
NaN == -1

Digits == {"0", "1", "2", "3", "4", "5", "6", "7", "8", "9"}

DigitVal(c) ==
  CASE c = "0" -> 0 [] c = "1" -> 1 [] c = "2" -> 2 [] c = "3" -> 3
    [] c = "4" -> 4 [] c = "5" -> 5 [] c = "6" -> 6 [] c = "7" -> 7
    [] c = "8" -> 8 [] c = "9" -> 9

\* the longest prefix of s made of digits
RECURSIVE LeadingDigits(_)
LeadingDigits(s) ==
  IF s = <<>> \/ Head(s) \notin Digits THEN <<>>
  ELSE <<Head(s)>> \o LeadingDigits(Tail(s))

\* the number a string of digits stands for
RECURSIVE DigitsValue(_)
DigitsValue(ds) ==
  IF ds = <<>> THEN 0
  ELSE 10 * DigitsValue(SubSeq(ds, 1, Len(ds) - 1)) + DigitVal(ds[Len(ds)])

\* the fraction digits fr as a number of units: the first MaxFracLen
\* digits, padded with zeros
FracValue(fr) ==
  DigitsValue([i \in 1..MaxFracLen |-> IF i <= Len(fr) THEN fr[i] ELSE "0"])

\* parseFloat on a string of digits, letters, '.' and ':': the longest
\* prefix digits [ '.' digits ], NaN when it holds no digit
parseFloat(s) ==
  LET int == LeadingDigits(s)
      rest == SubSeq(s, Len(int) + 1, Len(s))
      fr == IF rest # <<>> /\ Head(rest) = "."
            THEN LeadingDigits(Tail(rest)) ELSE <<>>
  IN IF int = <<>> /\ fr = <<>> THEN NaN
     ELSE DigitsValue(int) * Scale + FracValue(fr)

\* s.split(':')
RECURSIVE SplitColon(_)
SplitColon(s) ==
  IF ~Includes(s, ":") THEN <<s>>
  ELSE LET i == CHOOSE j \in 1..Len(s) :
                   s[j] = ":" /\ \A k \in 1..(j - 1) : s[k] # ":"
       IN <<SubSeq(s, 1, i - 1)>> \o SplitColon(SubSeq(s, i + 1, Len(s)))

\* mutant: the hours are not counted
parseDurationNoHours(durationStr) ==
  LET parts == SplitColon(durationStr)
  IN IF Len(parts) = 3
     THEN LET minutes == parseFloat(parts[2])
              seconds == parseFloat(parts[3])
          IN IF NaN \in {minutes, seconds} THEN NaN
             ELSE minutes * 60 + seconds
     ELSE 0

\* parseDuration: hours * 3600 + minutes * 60 + seconds of a string with
\* three parts (NaN when a part is not a number), 0 of any other string
parseDuration(durationStr) ==
  LET parts == SplitColon(durationStr)
  IN IF Len(parts) = 3
     THEN LET hours == parseFloat(parts[1])
              minutes == parseFloat(parts[2])
              seconds == parseFloat(parts[3])
          IN IF NaN \in {hours, minutes, seconds} THEN NaN
             ELSE hours * 3600 + minutes * 60 + seconds
     ELSE 0

\* two digits
TwoDigits == {<<a, b>> : a \in {"0", "1"}, b \in {"0", "1"}}

\* the fractions of a second: 1 to MaxFracLen digits
Fractions == UNION {[1..k -> {"0", "5"}] : k \in 1..MaxFracLen}

\* duration attributes of the form HH:MM:SS.fraction
ClockDurations ==
  {h \o <<":">> \o m \o <<":">> \o sec \o <<".">> \o f :
     h \in TwoDigits, m \in TwoDigits, sec \in TwoDigits, f \in Fractions}

\* parts.join(':')
RECURSIVE JoinColon(_)
JoinColon(parts) ==
  IF parts = <<>> THEN <<>>
  ELSE IF Len(parts) = 1 THEN parts[1]
  ELSE parts[1] \o <<":">> \o JoinColon(Tail(parts))

\* duration attributes with other than two ':' (not empty: the expression
\* for UnitTestResult asks for duration="[^"]+")
OtherDurations ==
  {JoinColon(ps) :
     ps \in UNION {[1..k -> {<<>>, <<"0", "1">>, <<"1", ".", "5">>}] :
                     k \in (1..(MaxColons + 1)) \ {3}}} \ {<<>>}

\* duration attributes with two ':' that are not of the form H:M:S
OddDurations ==
  {<<":", ":">>, <<"a", ":", "0", ":", "1">>, <<"1", ":", "2", ":", "b">>}

DurationStrings == ClockDurations \cup OtherDurations \cup OddDurations

\* 00:00:01.5
TypicalDuration == <<"0", "0", ":", "0", "0", ":", "0", "1", ".", "5">>

\* a UnitTestResult without a Message element
NoMessage == "none"

\* the UnitTestResult elements of a TRX document, in document order: the
\* attributes testName, outcome and duration and the text of the Message
\* element inside the result
TrxResults(names, outcomes, durations, messages, n) ==
  UNION {[1..k -> [testName : names, outcome : outcomes,
                   duration : durations, message : messages]] :
           k \in 0..n}

\* trxContent.match(new RegExp(`testName="${testName}"[^>]*>[\s\S]*?
\* <Message>([\s\S]*?)</Message>`)): the leftmost match starts at the first
\* result with the name and runs to the first Message element after the
\* start of that result, in whichever result it is; null without one
MessageMatch(tests, testName) ==
  LET first == CHOOSE j \in 1..Len(tests) :
                 /\ tests[j].testName = testName
                 /\ \A k \in 1..(j - 1) : tests[k].testName # testName
      with == {k \in first..Len(tests) : tests[k].message # NoMessage}
  IN IF with = {} THEN NoMessage
     ELSE tests[CHOOSE k \in with : \A l \in with : k <= l].message

\* String.prototype.toLowerCase on an outcome attribute
LowerOutcome(o) ==
  IF o = "Passed" THEN "passed"
  ELSE IF o = "Failed" THEN "failed"
  ELSE IF o = "NotExecuted" THEN "notexecuted"
  ELSE o

\* (report.tests || []).map(t => ({..., outcome: t.outcome,
\*   duration: t.call?.duration || t.setup?.duration || 0, ...}))
PytestReportTests(art) ==
  [i \in 1..Len(art.tests) |->
     [outcome |-> art.tests[i].outcome,
      duration |-> ReportDuration(art.tests[i])]]

\* parseTrxReport: one entry per UnitTestResult the expression matches
TrxReportTests(art) ==
  IF art.kind = "ok"
  THEN [i \in 1..Len(art.tests) |->
          [nodeid |-> art.tests[i].testName,
           outcome |-> LowerOutcome(art.tests[i].outcome),
           duration |-> parseDuration(art.tests[i].duration),
           error |-> MessageMatch(art.tests, art.tests[i].testName)]]
  ELSE <<>>

(***************************************************************************)
(* The request body                                                        *)
(***************************************************************************)
\* what req.body.files can be: an array, undefined, null, a string that is
\* not empty, an object
FileTypes == {"array", "missing", "null", "string", "object"}

\* !files
Falsy(t) == t \in {"missing", "null"}

\* Array.isArray(files)
IsArray(t) == t = "array"

\* mutant: only a missing files field is turned down
RejectedIfFalsy(t) == Falsy(t)

\* !files || !Array.isArray(files)
Rejected(t) == Falsy(t) \/ ~IsArray(t)

(***************************************************************************)
(* POST /api/download-zip, one FileEntry                                   *)
(***************************************************************************)
\* the directory of the archive entry: the cleaned path, or the directory
\* part of the name when the path is empty
ZipFilePath(file) ==
  LET filePath == CleanPath(file.path)
  IN IF Includes(file.name, "/") /\ filePath = <<>>
     THEN LET parts == SplitSlash(file.name)
          IN JoinSlash(SubSeq(parts, 1, Len(parts) - 1))
     ELSE filePath

\* mutant: the directory chosen as the write loop of run-tests chooses it
ZipFullPathAsWritten(file) ==
  IF EntryFilePath(file) # <<>>
  THEN EntryFilePath(file) \o <<"/">> \o EntryFileName(file)
  ELSE EntryFileName(file)

\* the name given to archive.append: `${filePath}/${fileName}`, or fileName
ZipFullPath(file) ==
  IF ZipFilePath(file) # <<>>
  THEN ZipFilePath(file) \o <<"/">> \o EntryFileName(file)
  ELSE EntryFileName(file)

\* the frontend before a test run: isRunningTests false, testStatus null.
\* phase is the place of runTests ("idle", "fetching", "reading", "ended"),
\* taken the part of the response body it has read, seen the events it has
\* handled (their places in the stream), cut whether a read ended inside
\* the data line of an event, fetchFailed whether fetch was rejected
UiIdle ==
  [phase |-> "idle", taken |-> 0, seen |-> <<>>, status |-> "null",
   running |-> FALSE, cut |-> FALSE, fetchFailed |-> FALSE]

(***************************************************************************)
(* The handler of POST /api/run-tests                                      *)
(***************************************************************************)
reqVars == <<filesType, files, browser, headed, selectedBrowser, language>>

\* what the run-tests handler does not touch: the archive of the ZIP
\* endpoint and the frontend
outerVars == <<archive, ui>>

\* the second request before its handler has run
OtherIdle == [pc |-> "start", dir |-> "none", stream |-> <<>>, chunks |-> 0]

fsVars == <<tempDir, fsFiles, fsDirs>>

\* the subprocess spawned last
child == IF procs = <<>> THEN NoChild ELSE procs[Len(procs)]

\* the list of subprocesses with the last one's record replaced
SetChild(c) == [procs EXCEPT ![Len(procs)] = c]

pipVars == <<pipOutput, pipError>>

InitOf(manifests, browsers, flags, types) ==
  /\ filesType \in types
  /\ files \in (IF IsArray(filesType) THEN manifests ELSE {<<>>})
  /\ archive = <<>>
  /\ ui = UiIdle
  /\ browser \in browsers
  /\ headed \in flags
  /\ selectedBrowser = "none"
  /\ language = "none"
  /\ pc = "start"
  /\ idx = 0
  /\ tempDir = "none"
  /\ fsFiles = {}
  /\ fsDirs = Prefixes(<<<<"tmp">>>>)
  /\ headersSent = FALSE
  /\ ended = FALSE
  /\ httpStatus = 0
  /\ stream = <<>>
  /\ lateWrites = <<>>
  /\ procs = <<>>
  /\ pipOutput = <<>>
  /\ pipError = <<>>
  /\ artifact = NoArtifact
  /\ clientLeftAt = "never"
  /\ other = OtherIdle

InitWith(manifests, browsers, flags) ==
  InitOf(manifests, browsers, flags, {"array"})

Init == InitWith(Manifests, Browsers, {FALSE})

\* mutant: the catch block writes an 'error' event whether or not the
\* stream has started
CatchAlwaysStream(tag) ==
  /\ stream' = Append(stream, Ev("error", tag, 0))
  /\ headersSent' = TRUE
  /\ ended' = TRUE
  /\ pc' = "done"
  /\ UNCHANGED <<httpStatus, lateWrites>>

\* the catch block: an HTTP 500 JSON body while no event has been written,
\* an 'error' event once the stream has started; the response is ended
Catch(tag) ==
  /\ IF ~headersSent
     THEN /\ httpStatus' = 500
          /\ headersSent' = TRUE
          /\ stream' = stream
     ELSE /\ stream' = Append(stream, Ev("error", tag, 0))
          /\ UNCHANGED <<httpStatus, headersSent>>
  /\ ended' = TRUE
  /\ pc' = "done"
  /\ UNCHANGED lateWrites

\* the synchronous start of the handler, up to the first await: the
\* request is destructured and answered with HTTP 400 'No files provided'
\* unless files is an array, the engine validated, the family detected
Accept ==
  /\ pc = "start"
  /\ IF Rejected(filesType)
     THEN /\ httpStatus' = 400
          /\ headersSent' = TRUE
          /\ ended' = TRUE
          /\ pc' = "done"
          /\ UNCHANGED <<selectedBrowser, language>>
     ELSE /\ selectedBrowser' = SelectBrowser(browser)
          /\ language' = detectLanguage(files)
          /\ pc' = "mkdtemp"
          /\ UNCHANGED <<headersSent, ended, httpStatus>>
  /\ UNCHANGED <<filesType, files, browser, headed, outerVars, clientLeftAt,
                 other, idx, fsVars, stream, lateWrites, procs, pipOutput,
                 pipError, artifact>>

MkdtempOk ==
  /\ pc = "mkdtemp"
  /\ \E n \in FreshNames(fsDirs) :
       /\ tempDir' = n
       /\ fsDirs' = fsDirs \cup {WorkLoc(n)}
  /\ pc' = "write"
  /\ UNCHANGED <<reqVars, outerVars, clientLeftAt, other, idx, fsFiles, headersSent, ended, httpStatus, stream,
                 lateWrites, procs, pipOutput, pipError, artifact>>

MkdtempFail ==
  /\ pc = "mkdtemp"
  /\ Catch("mkdtemp")
  /\ UNCHANGED <<reqVars, outerVars, clientLeftAt, other, idx, tempDir, fsFiles, fsDirs, procs, pipOutput,
                 pipError, artifact>>

\* one iteration of the write loop that succeeds
WriteFileOk ==
  /\ pc = "write"
  /\ idx < Len(files)
  /\ LET file == files[idx + 1]
     IN /\ ~MkdirFails(file)
        /\ ~WriteFails(file)
        /\ fsDirs' = DirsAfterMkdir(file)
        /\ fsFiles' = FilesAfterWrite(file)
  /\ idx' = idx + 1
  /\ UNCHANGED <<reqVars, outerVars, clientLeftAt, other, pc, tempDir, headersSent, ended, httpStatus, stream,
                 lateWrites, procs, pipOutput, pipError, artifact>>

\* mkdir rejects: a component of the directory is a file, or the disk is
\* full or not writable
MkdirFail ==
  /\ pc = "write"
  /\ idx < Len(files)
  /\ EntryFilePath(files[idx + 1]) # <<>>
  /\ Catch("mkdir")
  /\ UNCHANGED <<reqVars, outerVars, clientLeftAt, other, idx, fsVars, procs, pipOutput, pipError, artifact>>

\* mutant: a failed write answers HTTP 500 but the loop goes on with the
\* next entry
WriteFileFailContinues ==
  /\ pc = "write"
  /\ idx < Len(files)
  /\ ~ended
  /\ httpStatus' = 500
  /\ headersSent' = TRUE
  /\ ended' = TRUE
  /\ idx' = idx + 1
  /\ UNCHANGED <<reqVars, outerVars, clientLeftAt, other, pc, fsVars, stream,
                 lateWrites, procs, pipVars, artifact>>

\* writeFile rejects: the target is a directory, or the disk is full or not
\* writable; the directories made for it stay
WriteFileFail ==
  /\ pc = "write"
  /\ idx < Len(files)
  /\ LET file == files[idx + 1]
     IN /\ ~MkdirFails(file)
        /\ fsDirs' = DirsAfterMkdir(file)
  /\ Catch("write")
  /\ UNCHANGED <<reqVars, outerVars, clientLeftAt, other, idx, tempDir, fsFiles, procs, pipOutput, pipError,
                 artifact>>

\* the client closes the connection while the request is being served; the
\* handler registers no listener for it, so nothing of the request changes
\* and later writes to the response are dropped by the closed socket
Disconnect ==
  /\ pc \notin {"start", "done"}
  /\ clientLeftAt = "never"
  /\ clientLeftAt' = pc
  /\ UNCHANGED <<reqVars, outerVars, other, pc, idx, fsVars, headersSent, ended,
                 httpStatus, stream, lateWrites, procs, pipVars, artifact>>

(***************************************************************************)
(* The handler of POST /api/download-zip for the same files                *)
(***************************************************************************)
\* every entry of the manifest is appended to the archive under its name
ZipDownload ==
  /\ IsArray(filesType)
  /\ files # <<>>
  /\ archive = <<>>
  /\ archive' = [i \in 1..Len(files) |-> ZipFullPath(files[i])]
  /\ UNCHANGED <<reqVars, ui, clientLeftAt, other, pc, idx, fsVars,
                 headersSent, ended, httpStatus, stream, lateWrites, procs,
                 pipVars, artifact>>

(***************************************************************************)
(* The frontend: runTests of App.jsx                                       *)
(***************************************************************************)
\* sendEvent writes `data: ${JSON.stringify({type, data})}\n\n`: the data
\* line of event i in two pieces (any place a read can end inside the line)
\* and the two newlines
WireOf(i) ==
  <<[ev |-> i, part |-> "head"], [ev |-> i, part |-> "tail"],
    [ev |-> i, part |-> "nl"]>>

RECURSIVE WireUpTo(_)
WireUpTo(n) == IF n = 0 THEN <<>> ELSE WireUpTo(n - 1) \o WireOf(n)

\* the body of the response so far: the events written to the stream, or
\* the JSON body of res.status(...).json(...)
Wire ==
  IF httpStatus # 0 THEN <<[ev |-> 0, part |-> "json"]>>
  ELSE WireUpTo(Len(stream))

\* chunk.split('\n'): the pieces between newlines
RECURSIVE SplitLines(_)
SplitLines(chunk) ==
  IF \A k \in 1..Len(chunk) : chunk[k].part # "nl" THEN <<chunk>>
  ELSE LET i == CHOOSE j \in 1..Len(chunk) :
                   chunk[j].part = "nl"
                   /\ \A k \in 1..(j - 1) : chunk[k].part # "nl"
       IN <<SubSeq(chunk, 1, i - 1)>>
            \o SplitLines(SubSeq(chunk, i + 1, Len(chunk)))

\* line.startsWith('data: ') and JSON.parse(line.slice(6)) succeeds: the
\* line is the whole data line of one event
ParsesAsEvent(line) ==
  /\ Len(line) = 2
  /\ line[1].part = "head"
  /\ line[2].part = "tail"
  /\ line[1].ev = line[2].ev

\* the events of the lines of a chunk that parse, in order
RECURSIVE EventsOf(_)
EventsOf(lines) ==
  IF lines = <<>> THEN <<>>
  ELSE (IF ParsesAsEvent(Head(lines)) THEN <<Head(lines)[1].ev>> ELSE <<>>)
         \o EventsOf(Tail(lines))

\* mutant: 'complete' always taken for a pass
StatusAfterPassing(status, ev) ==
  IF ev.type = "complete" THEN "passed"
  ELSE IF ev.type = "error" THEN "error"
  ELSE status

\* testStatus after one event is handled
StatusAfter(status, ev) ==
  IF ev.type = "complete"
  THEN (IF ev.code = 0 THEN "passed" ELSE "failed")
  ELSE IF ev.type = "error" THEN "error"
  ELSE status

RECURSIVE StatusAfterAll(_, _)
StatusAfterAll(status, evs) ==
  IF evs = <<>> THEN status
  ELSE StatusAfterAll(StatusAfter(status, stream[Head(evs)]), Tail(evs))

\* a read that ends between the pieces of a data line
CutsLine(chunk) == chunk[Len(chunk)].part = "head"

uiFrame ==
  <<reqVars, archive, clientLeftAt, other, pc, idx, fsVars, headersSent,
    ended, httpStatus, stream, lateWrites, procs, pipVars, artifact>>

\* runTests up to fetch: the state of the last run is reset and the request
\* is sent
UiStart ==
  /\ ui.phase = "idle"
  /\ pc = "start"
  /\ ui' = [UiIdle EXCEPT !.phase = "fetching", !.running = TRUE]
  /\ UNCHANGED uiFrame

\* fetch is rejected (the server cannot be reached): catch and finally
UiFetchFail ==
  /\ ui.phase = "fetching"
  /\ pc = "start"
  /\ ui' = [ui EXCEPT !.phase = "ended", !.status = "error",
                      !.running = FALSE, !.fetchFailed = TRUE]
  /\ UNCHANGED uiFrame

\* fetch resolves once the response head has arrived, whatever its status
UiResponse ==
  /\ ui.phase = "fetching"
  /\ headersSent
  /\ ui' = [ui EXCEPT !.phase = "reading"]
  /\ UNCHANGED uiFrame

\* one turn of the reader loop: reader.read() gives some of what the server
\* has written and not yet been read; its lines are handled one by one
UiRead ==
  /\ ui.phase = "reading"
  /\ \E n \in 1..(Len(Wire) - ui.taken) :
       LET chunk == SubSeq(Wire, ui.taken + 1, ui.taken + n)
           evs == EventsOf(SplitLines(chunk))
       IN ui' = [ui EXCEPT !.taken = @ + n,
                           !.seen = @ \o evs,
                           !.status = StatusAfterAll(@, evs),
                           !.cut = @ \/ CutsLine(chunk)]
  /\ UNCHANGED uiFrame

\* reader.read() reports done: the loop is left, finally runs
UiDone ==
  /\ ui.phase = "reading"
  /\ ended
  /\ ui.taken = Len(Wire)
  /\ ui' = [ui EXCEPT !.phase = "ended", !.running = FALSE]
  /\ UNCHANGED uiFrame

UiSteps == UiStart \/ UiFetchFail \/ UiResponse \/ UiRead \/ UiDone

(***************************************************************************)
(* runPythonTests                                                          *)
(***************************************************************************)
\* requirements.txt is in the directory pip runs in
ReqOnDisk ==
  \E f \in fsFiles : f.loc = Append(TempLoc, <<"requirements.txt">>)

\* the setup of the event stream and the start of runPythonTests
RoutePython ==
  /\ pc = "write"
  /\ idx = Len(files)
  /\ language # "csharp"
  /\ stream' = Append(stream, Ev("status", "venv", 0))
  /\ headersSent' = TRUE
  /\ \E fate \in Fates : procs' = Append(procs, Spawn("venv", fate))
  /\ pc' = "venv"
  /\ UNCHANGED <<reqVars, outerVars, clientLeftAt, other, idx, tempDir, fsFiles, fsDirs, ended, httpStatus,
                 lateWrites, pipOutput, pipError, artifact>>

\* a chunk on createVenv.stdout or createVenv.stderr: the pipes have no
\* 'data' listener, nothing is sent
VenvData ==
  /\ pc = "venv"
  /\ child.st = "running"
  /\ child.fate # "nospawn"
  /\ child.chunks < MaxChunks
  /\ procs' = SetChild([child EXCEPT !.chunks = @ + 1])
  /\ UNCHANGED <<reqVars, outerVars, clientLeftAt, other, pc, idx, fsVars, headersSent,
                 ended, httpStatus, stream, lateWrites, pipVars, artifact>>

\* createVenv 'close'
VenvClose ==
  /\ pc = "venv"
  /\ child.st = "running"
  /\ child.fate = "exits"
  /\ \E code \in Codes :
       IF code = 0
       THEN /\ stream' = Append(stream, Ev("status", "deps", 0))
            /\ \E fate \in Fates : procs' = Append(SetChild(Closed(child, code)), Spawn("pip", fate))
            /\ pc' = "pip"
            /\ UNCHANGED <<headersSent, ended, httpStatus, lateWrites>>
       ELSE /\ procs' = SetChild(Closed(child, code))
            /\ Catch("venv failed")
  /\ UNCHANGED <<reqVars, outerVars, clientLeftAt, other, idx, fsVars, pipVars, artifact>>

\* createVenv 'error'
VenvError ==
  /\ pc = "venv"
  /\ child.st = "running"
  /\ child.fate = "nospawn"
  /\ procs' = SetChild(Errored(child))
  /\ Catch("spawn failed")
  /\ UNCHANGED <<reqVars, outerVars, clientLeftAt, other, idx, fsVars, pipVars, artifact>>

\* a chunk on pipInstall.stdout or pipInstall.stderr
PipData ==
  /\ pc = "pip"
  /\ child.st = "running"
  /\ child.fate # "nospawn"
  /\ child.chunks < MaxChunks
  /\ stream' = Append(stream, Ev("pip", "pip", child.chunks + 1))
  /\ \E src \in {"stdout", "stderr"} :
       IF src = "stdout"
       THEN /\ procs' = SetChild([child EXCEPT !.chunks = @ + 1])
            /\ pipOutput' = Append(pipOutput, child.chunks + 1)
            /\ pipError' = pipError
       ELSE /\ procs' = SetChild([child EXCEPT !.chunks = @ + 1,
                                               !.errChunks = @ + 1])
            /\ pipError' = Append(pipError, child.chunks + 1)
            /\ pipOutput' = pipOutput
  /\ UNCHANGED <<reqVars, outerVars, clientLeftAt, other, pc, idx, fsVars, headersSent, ended, httpStatus,
                 lateWrites, artifact>>

\* the message of the Error pip's 'close' rejects with
PipFailure ==
  IF pipError # <<>> THEN "pip failed: stderr"
  ELSE IF pipOutput # <<>> THEN "pip failed: stdout"
  ELSE "pip failed"

\* mutant: a failed pip install does not stop the pipeline
PipResolvesAlways(code) == TRUE

\* pipInstall 'close' resolves the wait
PipResolves(code) == code = 0

\* pipInstall 'close'; pip cannot succeed without its requirements file
PipClose ==
  /\ pc = "pip"
  /\ child.st = "running"
  /\ child.fate = "exits"
  /\ \E code \in Codes :
       /\ code # 0 \/ ReqOnDisk
       /\ IF PipResolves(code)
          THEN /\ stream' = Append(stream, EvFor("status", "browser", 0, selectedBrowser))
               /\ \E fate \in Fates : procs' = Append(SetChild(Closed(child, code)), SpawnFor("playwright", fate, selectedBrowser))
               /\ pc' = "pwPy"
               /\ UNCHANGED <<headersSent, ended, httpStatus, lateWrites>>
          ELSE /\ procs' = SetChild(Closed(child, code))
               /\ Catch(PipFailure)
  /\ UNCHANGED <<reqVars, outerVars, clientLeftAt, other, idx, fsVars, pipVars, artifact>>

\* pipInstall 'error'
PipError ==
  /\ pc = "pip"
  /\ child.st = "running"
  /\ child.fate = "nospawn"
  /\ procs' = SetChild(Errored(child))
  /\ Catch("spawn failed")
  /\ UNCHANGED <<reqVars, outerVars, clientLeftAt, other, idx, fsVars, pipVars, artifact>>

\* a chunk on playwrightInstall.stdout or .stderr
PwPyData ==
  /\ pc = "pwPy"
  /\ child.st = "running"
  /\ child.fate # "nospawn"
  /\ child.chunks < MaxChunks
  /\ procs' = SetChild([child EXCEPT !.chunks = @ + 1])
  /\ stream' = Append(stream, Ev("pip", "playwright", child.chunks + 1))
  /\ UNCHANGED <<reqVars, outerVars, clientLeftAt, other, pc, idx, fsVars, headersSent, ended, httpStatus,
                 lateWrites, pipVars, artifact>>

\* mutant: the test process spawned without waiting for the engine
\* installation to end
StartPytestEarly(c) ==
  /\ stream' = Append(stream, EvFor("status", "running", 0, selectedBrowser))
  /\ \E fate \in Fates :
       procs' = Append(procs, SpawnPytest(fate, selectedBrowser, headed, TempLoc))
  /\ pc' = "pytest"
  /\ UNCHANGED <<reqVars, outerVars, clientLeftAt, other, idx, fsVars, headersSent,
                 ended, httpStatus, lateWrites, pipVars, artifact>>

\* mutant: an engine installation that did not exit with 0 is fatal
StartPytestIfInstalled(c) ==
  /\ IF c.st = "closed" /\ c.exitCode = 0
     THEN /\ stream' = Append(stream, EvFor("status", "running", 0, selectedBrowser))
          /\ \E fate \in Fates :
               procs' = Append(SetChild(c), SpawnPytest(fate, selectedBrowser, headed, TempLoc))
          /\ pc' = "pytest"
          /\ UNCHANGED <<headersSent, ended, httpStatus, lateWrites>>
     ELSE /\ procs' = SetChild(c)
          /\ Catch("playwright failed")
  /\ UNCHANGED <<reqVars, outerVars, clientLeftAt, other, idx, fsVars, pipVars, artifact>>

\* what follows the engine installation, whatever its outcome
StartPytest(c) ==
  /\ stream' = Append(stream, EvFor("status", "running", 0, selectedBrowser))
  /\ \E fate \in Fates : procs' = Append(SetChild(c), SpawnPytest(fate, selectedBrowser, headed, TempLoc))
  /\ pc' = "pytest"
  /\ UNCHANGED <<reqVars, outerVars, clientLeftAt, other, idx, fsVars, headersSent, ended, httpStatus,
                 lateWrites, pipVars, artifact>>

\* playwrightInstall 'close': resolves for every code
PwPyClose ==
  /\ pc = "pwPy"
  /\ child.st = "running"
  /\ child.fate = "exits"
  /\ \E code \in Codes : StartPytest(Closed(child, code))

\* playwrightInstall 'error': resolves
PwPyError ==
  /\ pc = "pwPy"
  /\ child.st = "running"
  /\ child.fate = "nospawn"
  /\ StartPytest(Errored(child))

\* a chunk on pytest.stdout or pytest.stderr
PytestData ==
  /\ pc = "pytest"
  /\ child.st = "running"
  /\ child.fate # "nospawn"
  /\ child.chunks < MaxChunks
  /\ procs' = SetChild([child EXCEPT !.chunks = @ + 1])
  /\ stream' = Append(stream, Ev("test", "pytest", child.chunks + 1))
  /\ UNCHANGED <<reqVars, outerVars, clientLeftAt, other, pc, idx, fsVars, headersSent, ended, httpStatus,
                 lateWrites, pipVars, artifact>>

\* mutant: a non-zero exit code of pytest treated as a pipeline error
PytestCloseEventsFatal(code, art) ==
  IF code # 0
  THEN <<Ev("error", "tests failed", 0)>>
  ELSE (IF art.kind = "ok"
        THEN <<EvReportWith(art.kind, PytestReportTests(art), PytestReportSummary(art))>> ELSE <<>>)
         \o <<Ev("complete", "exit", code)>>

\* mutant: 'complete' sent before the report is read
PytestCloseEventsReportLast(code, art) ==
  <<Ev("complete", "exit", code)>>
    \o (IF art.kind = "ok"
     THEN <<EvReportWith(art.kind, PytestReportTests(art), PytestReportSummary(art))>> ELSE <<>>)

\* the events the pytest 'close' handler sends: the report when report.json
\* can be read and parsed, then 'complete'
PytestCloseEvents(code, art) ==
  (IF art.kind = "ok"
     THEN <<EvReportWith(art.kind, PytestReportTests(art), PytestReportSummary(art))>> ELSE <<>>)
    \o <<Ev("complete", "exit", code)>>

\* what a test run may leave at the report path; a process that was never
\* spawned leaves nothing
PytestArtifactsOf(outcomes, phases) ==
  {Artifact("absent", <<>>), Artifact("malformed", <<>>)}
    \cup {ArtifactWith("ok", t, PytestSummary(t)) :
             t \in PytestTestLists(outcomes, phases)}

\* every outcome, both phases with a duration other than 0
PytestArtifacts == PytestArtifactsOf(PytestOutcomes, {MaxDuration})

\* two outcomes, every combination of phase durations
TimedArtifacts == PytestArtifactsOf({"passed", "failed"}, Phases)

\* report.json with and without report.summary
SummedArtifacts ==
  PytestArtifacts
    \cup {Artifact("ok", t) : t \in PytestTestLists(PytestOutcomes, {MaxDuration})}

\* sendEvent calls made by a handler: written to the stream, or passed to
\* res.write after res.end() when the wait was already resolved
SendAll(evs) ==
  IF ended
  THEN lateWrites' = lateWrites \o evs /\ stream' = stream
  ELSE stream' = stream \o evs /\ lateWrites' = lateWrites

\* pytest 'close': after a normal exit, or after 'error' (a failed spawn)
PytestCloseWith(arts) ==
  /\ child.stage = "pytest"
  /\ \/ child.st = "running" /\ child.fate = "exits"
     \/ child.st = "errored"
  /\ \E code \in (IF child.st = "errored" THEN {ErrnoCode} ELSE Codes),
        art \in (IF child.st = "errored"
                 THEN {Artifact("absent", <<>>)} ELSE arts) :
       /\ procs' = SetChild(Closed(child, code))
       /\ artifact' = art
       /\ SendAll(PytestCloseEvents(code, art))
  /\ ended' = TRUE
  /\ pc' = "done"
  /\ UNCHANGED <<reqVars, outerVars, clientLeftAt, other, idx, fsVars, headersSent, httpStatus, pipVars>>

PytestClose == PytestCloseWith(PytestArtifacts)

\* pytest 'close' over every combination of phase durations
TimedPytestClose == PytestCloseWith(TimedArtifacts)

\* pytest 'close' over reports with and without aggregate fields
SummedPytestClose == PytestCloseWith(SummedArtifacts)

\* pytest 'error': an 'error' event, the wait resolves, the handler ends
\* the response
PytestError ==
  /\ pc = "pytest"
  /\ child.st = "running"
  /\ child.fate = "nospawn"
  /\ procs' = SetChild(Errored(child))
  /\ stream' = Append(stream, Ev("error", "spawn failed", 0))
  /\ ended' = TRUE
  /\ pc' = "done"
  /\ UNCHANGED <<reqVars, outerVars, clientLeftAt, other, idx, fsVars, headersSent, httpStatus, lateWrites,
                 pipVars, artifact>>

\* 'close' of a provisioning child after its 'error': the second reject of
\* a settled promise changes nothing
LateClose ==
  /\ child.stage \in {"venv", "pip", "restore", "build"}
  /\ child.st = "errored"
  /\ procs' = SetChild(Closed(child, ErrnoCode))
  /\ UNCHANGED <<reqVars, outerVars, clientLeftAt, other, pc, idx, fsVars, headersSent, ended, httpStatus,
                 stream, lateWrites, pipVars, artifact>>

(***************************************************************************)
(* runCSharpTests                                                          *)
(***************************************************************************)
\* the project argument of dotnet (csprojFile.name, relative to the
\* workspace the command runs in) names a file on disk
CsprojOnDisk ==
  /\ csprojIndex(files) # 0
  /\ \E f \in fsFiles :
       f.loc = Loc(PathJoin(TempDir, files[csprojIndex(files)].name))

\* the project argument of dotnet restore, build and test: csprojFile.name
ProjectArg == files[csprojIndex(files)].name

\* the start of runCSharpTests when no entry's name ends in .csproj: the
\* throw reaches the catch block before any event is written
RouteCSharpNoProject ==
  /\ pc = "write"
  /\ idx = Len(files)
  /\ language = "csharp"
  /\ csprojIndex(files) = 0
  /\ Catch("no csproj")
  /\ UNCHANGED <<reqVars, outerVars, clientLeftAt, other, idx, fsVars, procs, pipVars, artifact>>

RouteCSharp ==
  /\ pc = "write"
  /\ idx = Len(files)
  /\ language = "csharp"
  /\ csprojIndex(files) # 0
  /\ stream' = Append(stream, Ev("status", "restore", 0))
  /\ headersSent' = TRUE
  /\ \E fate \in Fates : procs' = Append(procs, Spawn("restore", fate))
  /\ pc' = "restore"
  /\ UNCHANGED <<reqVars, outerVars, clientLeftAt, other, idx, fsVars, ended, httpStatus, lateWrites, pipVars,
                 artifact>>

\* a chunk on restore.stdout or restore.stderr
RestoreData ==
  /\ pc = "restore"
  /\ child.st = "running"
  /\ child.fate # "nospawn"
  /\ child.chunks < MaxChunks
  /\ \E src \in {"stdout", "stderr"} :
       procs' = SetChild([child EXCEPT
                            !.chunks = @ + 1,
                            !.errChunks = IF src = "stderr" THEN @ + 1 ELSE @])
  /\ stream' = Append(stream, Ev("pip", "restore", child.chunks + 1))
  /\ UNCHANGED <<reqVars, outerVars, clientLeftAt, other, pc, idx, fsVars, headersSent, ended, httpStatus,
                 lateWrites, pipVars, artifact>>

\* mutant: a failed restore does not stop the pipeline
RestoreResolvesAlways(code) == TRUE

\* restore 'close' resolves the wait
RestoreResolves(code) == code = 0

\* restore 'close'; dotnet cannot restore a project file that is not there
RestoreClose ==
  /\ pc = "restore"
  /\ child.st = "running"
  /\ child.fate = "exits"
  /\ \E code \in Codes :
       /\ code # 0 \/ CsprojOnDisk
       /\ IF RestoreResolves(code)
          THEN /\ stream' = Append(stream, Ev("status", "build", 0))
               /\ \E fate \in Fates : procs' = Append(SetChild(Closed(child, code)), Spawn("build", fate))
               /\ pc' = "build"
               /\ UNCHANGED <<headersSent, ended, httpStatus, lateWrites>>
          ELSE /\ procs' = SetChild(Closed(child, code))
               /\ Catch("restore failed")
  /\ UNCHANGED <<reqVars, outerVars, clientLeftAt, other, idx, fsVars, pipVars, artifact>>

\* restore 'error'
RestoreError ==
  /\ pc = "restore"
  /\ child.st = "running"
  /\ child.fate = "nospawn"
  /\ procs' = SetChild(Errored(child))
  /\ Catch("spawn failed")
  /\ UNCHANGED <<reqVars, outerVars, clientLeftAt, other, idx, fsVars, pipVars, artifact>>

\* a chunk on build.stdout or build.stderr
BuildData ==
  /\ pc = "build"
  /\ child.st = "running"
  /\ child.fate # "nospawn"
  /\ child.chunks < MaxChunks
  /\ \E src \in {"stdout", "stderr"} :
       procs' = SetChild([child EXCEPT
                            !.chunks = @ + 1,
                            !.errChunks = IF src = "stderr" THEN @ + 1 ELSE @])
  /\ stream' = Append(stream, Ev("pip", "build", child.chunks + 1))
  /\ UNCHANGED <<reqVars, outerVars, clientLeftAt, other, pc, idx, fsVars, headersSent, ended, httpStatus,
                 lateWrites, pipVars, artifact>>

\* build 'close'
BuildClose ==
  /\ pc = "build"
  /\ child.st = "running"
  /\ child.fate = "exits"
  /\ \E code \in Codes :
       IF code = 0
       THEN /\ stream' = Append(stream, EvFor("status", "browser", 0, selectedBrowser))
            /\ \E fate \in Fates : procs' = Append(SetChild(Closed(child, code)), SpawnFor("playwright", fate, selectedBrowser))
            /\ pc' = "pwCs"
            /\ UNCHANGED <<headersSent, ended, httpStatus, lateWrites>>
       ELSE /\ procs' = SetChild(Closed(child, code))
            /\ Catch("build failed")
  /\ UNCHANGED <<reqVars, outerVars, clientLeftAt, other, idx, fsVars, pipVars, artifact>>

\* build 'error'
BuildError ==
  /\ pc = "build"
  /\ child.st = "running"
  /\ child.fate = "nospawn"
  /\ procs' = SetChild(Errored(child))
  /\ Catch("spawn failed")
  /\ UNCHANGED <<reqVars, outerVars, clientLeftAt, other, idx, fsVars, pipVars, artifact>>

\* a chunk on playwrightInstall.stdout or .stderr
PwCsData ==
  /\ pc = "pwCs"
  /\ child.st = "running"
  /\ child.fate # "nospawn"
  /\ child.chunks < MaxChunks
  /\ procs' = SetChild([child EXCEPT !.chunks = @ + 1])
  /\ stream' = Append(stream, Ev("pip", "playwright", child.chunks + 1))
  /\ UNCHANGED <<reqVars, outerVars, clientLeftAt, other, pc, idx, fsVars, headersSent, ended, httpStatus,
                 lateWrites, pipVars, artifact>>

\* what follows the engine installation, whatever its outcome
StartDotnetTest(c) ==
  /\ stream' = Append(stream, EvFor("status", "running", 0, selectedBrowser))
  /\ \E fate \in Fates : procs' = Append(SetChild(c), SpawnDotnetTest(fate, selectedBrowser, headed, TempLoc))
  /\ pc' = "dotnetTest"
  /\ UNCHANGED <<reqVars, outerVars, clientLeftAt, other, idx, fsVars, headersSent, ended, httpStatus,
                 lateWrites, pipVars, artifact>>

\* playwrightInstall 'close': resolves for every code
PwCsClose ==
  /\ pc = "pwCs"
  /\ child.st = "running"
  /\ child.fate = "exits"
  /\ \E code \in Codes : StartDotnetTest(Closed(child, code))

\* playwrightInstall 'error': resolves
PwCsError ==
  /\ pc = "pwCs"
  /\ child.st = "running"
  /\ child.fate = "nospawn"
  /\ StartDotnetTest(Errored(child))

\* a chunk on testProcess.stdout or testProcess.stderr
DotnetTestData ==
  /\ pc = "dotnetTest"
  /\ child.st = "running"
  /\ child.fate # "nospawn"
  /\ child.chunks < MaxChunks
  /\ procs' = SetChild([child EXCEPT !.chunks = @ + 1])
  /\ stream' = Append(stream, Ev("test", "dotnetTest", child.chunks + 1))
  /\ UNCHANGED <<reqVars, outerVars, clientLeftAt, other, pc, idx, fsVars, headersSent, ended, httpStatus,
                 lateWrites, pipVars, artifact>>

\* the results of a typical TRX document
TypicalResults ==
  TrxResults({"A"}, TrxOutcomes, {TypicalDuration}, {NoMessage}, MaxTests)

\* what a test run may leave in TestResults: no directory, a directory
\* without a .trx file, a .trx file that is not a TRX document, a TRX report
\* (one test of each outcome, with the duration 00:00:01.5)
TrxArtifacts ==
  {Artifact("absent", <<>>), Artifact("notrx", <<>>),
   Artifact("malformed", <<>>)}
    \cup {ArtifactWith("ok", t, TrxCounters(t)) : t \in TypicalResults}

\* TRX reports with and without a Counters element
SummedTrxArtifacts ==
  TrxArtifacts \cup {Artifact("ok", t) : t \in TypicalResults}

\* TRX reports of up to MaxResults results, with and without messages
MessagedTrxArtifacts ==
  {ArtifactWith("ok", t, TrxCounters(t)) :
     t \in TrxResults({"A", "B"}, {"Passed", "Failed"}, {TypicalDuration},
                      {NoMessage, "m1", "m2"}, MaxResults)}

\* TRX reports of one result with every duration attribute
ClockedTrxArtifacts ==
  {ArtifactWith("ok", t, TrxCounters(t)) :
     t \in TrxResults({"A"}, {"Passed"}, DurationStrings, {NoMessage}, 1)}

\* the events the testProcess 'close' handler sends: the report whenever a
\* .trx file is found and read, then 'complete'
DotnetCloseEvents(code, art) ==
  (IF art.kind \in {"malformed", "ok"}
   THEN <<EvReportWith(art.kind, TrxReportTests(art), TrxReportSummary(art))>> ELSE <<>>)
    \o <<Ev("complete", "exit", code)>>

\* testProcess 'close': after a normal exit, or after 'error'
DotnetTestCloseWith(arts) ==
  /\ child.stage = "dotnetTest"
  /\ \/ child.st = "running" /\ child.fate = "exits"
     \/ child.st = "errored"
  /\ \E code \in (IF child.st = "errored" THEN {ErrnoCode} ELSE Codes),
        art \in (IF child.st = "errored"
                 THEN {Artifact("absent", <<>>)} ELSE arts) :
       /\ procs' = SetChild(Closed(child, code))
       /\ artifact' = art
       /\ SendAll(DotnetCloseEvents(code, art))
  /\ ended' = TRUE
  /\ pc' = "done"
  /\ UNCHANGED <<reqVars, outerVars, clientLeftAt, other, idx, fsVars, headersSent, httpStatus, pipVars>>

DotnetTestClose == DotnetTestCloseWith(TrxArtifacts)

\* testProcess 'close' over reports with every duration attribute
ClockedDotnetTestClose == DotnetTestCloseWith(ClockedTrxArtifacts)

\* testProcess 'close' over reports with and without messages
MessagedDotnetTestClose == DotnetTestCloseWith(MessagedTrxArtifacts)

\* testProcess 'close' over reports with and without aggregate fields
SummedDotnetTestClose == DotnetTestCloseWith(SummedTrxArtifacts)

\* testProcess 'error'
DotnetTestError ==
  /\ pc = "dotnetTest"
  /\ child.st = "running"
  /\ child.fate = "nospawn"
  /\ procs' = SetChild(Errored(child))
  /\ stream' = Append(stream, Ev("error", "spawn failed", 0))
  /\ ended' = TRUE
  /\ pc' = "done"
  /\ UNCHANGED <<reqVars, outerVars, clientLeftAt, other, idx, fsVars, headersSent, httpStatus, lateWrites,
                 pipVars, artifact>>

(***************************************************************************)
(* A second request, served by the same handler at the same time.  Its     *)
(* handler is abbreviated to what it shares with the first: the temp       *)
(* directory mkdtemp names, the disk, and the writes to its own response.  *)
(***************************************************************************)
OtherLoc == WorkLoc(other.dir)

OtherMkdtemp ==
  /\ other.pc = "start"
  /\ \E n \in FreshNames(fsDirs) :
       /\ other' = [other EXCEPT !.pc = "write", !.dir = n]
       /\ fsDirs' = fsDirs \cup {WorkLoc(n)}
  /\ UNCHANGED <<reqVars, outerVars, clientLeftAt, pc, idx, tempDir, fsFiles,
                 headersSent, ended, httpStatus, stream, lateWrites, procs,
                 pipVars, artifact>>

\* its manifest (one requirements.txt) is written, its stream starts and
\* its first subprocess is spawned
OtherWrite ==
  /\ other.pc = "write"
  /\ LET target == Append(OtherLoc, <<"requirements.txt">>)
     IN fsFiles' = {f \in fsFiles : f.loc # target}
                     \cup {[loc |-> target, content |-> "c2"]}
  /\ other' = [other EXCEPT !.pc = "run",
                            !.stream = Append(@, Ev("status", "venv", 0))]
  /\ UNCHANGED <<reqVars, outerVars, clientLeftAt, pc, idx, tempDir, fsDirs,
                 headersSent, ended, httpStatus, stream, lateWrites, procs,
                 pipVars, artifact>>

\* a chunk of output of one of its subprocesses
OtherData ==
  /\ other.pc = "run"
  /\ other.chunks < MaxChunks
  /\ other' = [other EXCEPT !.chunks = @ + 1,
                            !.stream = Append(@, Ev("pip", "pip", other.chunks + 1))]
  /\ UNCHANGED <<reqVars, outerVars, clientLeftAt, pc, idx, fsVars, headersSent, ended,
                 httpStatus, stream, lateWrites, procs, pipVars, artifact>>

\* its pipeline ends
OtherClose ==
  /\ other.pc = "run"
  /\ \E type \in {"complete", "error"} :
       other' = [other EXCEPT !.pc = "done",
                              !.stream = Append(@, Ev(type, "exit", 0))]
  /\ UNCHANGED <<reqVars, outerVars, clientLeftAt, pc, idx, fsVars, headersSent, ended,
                 httpStatus, stream, lateWrites, procs, pipVars, artifact>>

OtherSteps == OtherMkdtemp \/ OtherWrite \/ OtherData \/ OtherClose

(***************************************************************************)
(* The pipeline of one request                                             *)
(***************************************************************************)
Materialise ==
  MkdtempOk \/ MkdtempFail \/ MkdirFail \/ WriteFileFail \/ WriteFileOk

PythonRun ==
  \/ RoutePython
  \/ VenvData \/ VenvClose \/ VenvError
  \/ PipData \/ PipClose \/ PipError
  \/ PwPyData \/ PwPyClose \/ PwPyError
  \/ PytestData \/ PytestError

PythonSteps == PythonRun \/ PytestClose

CSharpRun ==
  \/ RouteCSharpNoProject \/ RouteCSharp
  \/ RestoreData \/ RestoreClose \/ RestoreError
  \/ BuildData \/ BuildClose \/ BuildError
  \/ PwCsData \/ PwCsClose \/ PwCsError
  \/ DotnetTestData \/ DotnetTestError

CSharpSteps == CSharpRun \/ DotnetTestClose

Next == Accept \/ Materialise \/ PythonSteps \/ CSharpSteps \/ LateClose

Spec == Init /\ [][Next]_vars

\* The event loop runs every callback that is ready; whether a subprocess
\* exits is its fate, which no step of the handler decides.
FairSpec == Spec /\ WF_vars(Next)

(***************************************************************************)
(* One request whose client may close the connection at any await          *)
(***************************************************************************)
ClientNext == Next \/ Disconnect

ClientSpec == Init /\ [][ClientNext]_vars

(***************************************************************************)
(* Materialisation alone, for every single-entry manifest within bounds    *)
(***************************************************************************)
FsInit == InitWith({<<e>> : e \in FsEntries}, {"missing"}, {FALSE})

FsNext == Accept \/ Materialise

FsSpec == FsInit /\ [][FsNext]_vars

(***************************************************************************)
(* The start of the handler alone, for every manifest within bounds        *)
(***************************************************************************)
LangInit == InitWith(LangManifests, {"missing"}, {FALSE})

LangNext == Accept

LangSpec == LangInit /\ [][LangNext]_vars

(***************************************************************************)
(* Requests with and without the headed flag                               *)
(***************************************************************************)
HeadedInit == InitWith(Manifests, {"firefox", "missing"}, BOOLEAN)

HeadedSpec == HeadedInit /\ [][Next]_vars

(***************************************************************************)
(* Python requests whose report has every combination of phase durations   *)
(***************************************************************************)
DurInit ==
  InitWith({m \in Manifests : detectLanguage(m) = "python"}, {"missing"},
           {FALSE})

DurNext == Accept \/ Materialise \/ PythonRun \/ TimedPytestClose \/ LateClose

DurSpec == DurInit /\ [][DurNext]_vars

(***************************************************************************)
(* Requests whose report artifact has or lacks aggregate fields            *)
(***************************************************************************)
SumInit == InitWith(Manifests, {"missing"}, {FALSE})

SumNext ==
  \/ Accept \/ Materialise \/ LateClose
  \/ PythonRun \/ SummedPytestClose
  \/ CSharpRun \/ SummedDotnetTestClose

SumSpec == SumInit /\ [][SumNext]_vars

(***************************************************************************)
(* C# requests that pass provisioning, with every duration attribute       *)
(***************************************************************************)
ClockInit == InitWith({<<CsProj, TestCs>>}, {"missing"}, {FALSE})

ClockNext ==
  \/ Accept \/ MkdtempOk \/ WriteFileOk
  \/ RouteCSharp \/ RestoreClose \/ BuildClose \/ PwCsClose
  \/ ClockedDotnetTestClose

ClockSpec == ClockInit /\ [][ClockNext]_vars

(***************************************************************************)
(* Materialisation and the start of runCSharpTests, for project            *)
(* descriptors at every place of the manifest                              *)
(***************************************************************************)
ProjInit == InitWith({<<f>> : f \in ProjEntries}, {"missing"}, {FALSE})

ProjNext == Accept \/ Materialise \/ RouteCSharpNoProject \/ RouteCSharp

ProjSpec == ProjInit /\ [][ProjNext]_vars

(***************************************************************************)
(* C# requests that pass provisioning, with and without failure messages   *)
(***************************************************************************)
MsgNext ==
  \/ Accept \/ MkdtempOk \/ WriteFileOk
  \/ RouteCSharp \/ RestoreClose \/ BuildClose \/ PwCsClose
  \/ MessagedDotnetTestClose

MsgSpec == ClockInit /\ [][MsgNext]_vars

(***************************************************************************)
(* Requests whose files field is or is not an array                        *)
(***************************************************************************)
BodyInit == InitOf(Manifests, {"missing"}, {FALSE}, FileTypes)

BodySpec == BodyInit /\ [][Next]_vars

(***************************************************************************)
(* The same single-entry manifest written by run-tests and archived by     *)
(* download-zip                                                            *)
(***************************************************************************)
ZipEntries ==
  [name : StrsUpTo(MaxNameLen), path : StrsUpTo(MaxPathLen), content : {"c1"}]

ZipInit == InitWith({<<f>> : f \in ZipEntries}, {"missing"}, {FALSE})

ZipNext == Accept \/ MkdtempOk \/ WriteFileOk \/ ZipDownload

ZipSpec == ZipInit /\ [][ZipNext]_vars

(***************************************************************************)
(* The frontend running the tests of a manifest                            *)
(***************************************************************************)
UiInit == InitWith({<<ReqTxt, TestPy>>, <<TestCs>>}, {"missing"}, {FALSE})

UiNext ==
  \/ Accept \/ MkdtempOk \/ WriteFileOk
  \/ RoutePython \/ VenvClose \/ PipClose \/ PwPyClose \/ PytestClose
  \/ RouteCSharpNoProject
  \/ UiSteps

UiSpec == UiInit /\ [][UiNext]_vars

(***************************************************************************)
(* Two requests at the same time                                           *)
(***************************************************************************)
PairInit ==
  InitWith({<<ReqTxt, TestPy>>, <<CsProj, TestCs>>, <<TestCs>>}, {"missing"},
           {FALSE})

PairNext == Next \/ OtherSteps

PairSpec == PairInit /\ [][PairNext]_vars

(***************************************************************************)
(* Vocabulary of the properties                                            *)
(***************************************************************************)
\* every event a handler of the request passed to res.write, in order
Emitted == stream \o lateWrites

CountOf(seq, types) == Cardinality({i \in 1..Len(seq) : seq[i].type \in types})

HasEvent(seq, types) == \E i \in 1..Len(seq) : seq[i].type \in types

TestStages == {"pytest", "dotnetTest"}

\* the awaits of the handler at which a subprocess of the request is awaited
SubprocessStages ==
  {"venv", "pip", "pwPy", "pytest", "restore", "build", "pwCs", "dotnetTest"}

\* the test-execution process ran and exited by itself
TestExited ==
  child.stage \in TestStages /\ child.st = "closed" /\ child.fate = "exits"

\* what walking the workspace directory yields
Walk == {[rel |-> RelOf(f.loc), content |-> f.content] :
           f \in {g \in fsFiles : UnderRoot(g.loc)}}

\* the relative path an entry resolves to, as its segments
ResolvedRel(file) ==
  SelectSeq(SplitSlash(PathJoin(EntryFilePath(file), EntryFileName(file))),
            LAMBDA seg : seg # <<>>)

\* no two entries resolve to the same path or to a path inside the other
NoConflicts(fs) ==
  \A i, j \in 1..Len(fs) :
    i # j => ResolvedRel(fs[i]) \notin Prefixes(ResolvedRel(fs[j]))

\* the manifest holds no dependency manifest of its family
NoDependencyManifest ==
  IF detectLanguage(files) = "csharp"
  THEN csprojIndex(files) = 0
  ELSE ~ReqOnDisk

\* some entry's lowercased path+name holds the project extension or ends
\* with the C# source extension
MarksCSharp(fs) ==
  \E i \in 1..Len(fs) :
    LET full == ToLower(fs[i].path \o fs[i].name)
    IN Includes(full, ".csproj") \/ EndsWith(full, ".cs")

\* what walking the second request's workspace yields
OtherWalk ==
  {f \in fsFiles :
     /\ Len(f.loc) > Len(OtherLoc)
     /\ SubSeq(f.loc, 1, Len(OtherLoc)) = OtherLoc}

\* the non-empty segments of a relative path
Segs(p) == SelectSeq(SplitSlash(p), LAMBDA seg : seg # <<>>)

\* the name embeds a directory part, the path is not empty, and neither is
\* a prefix of the other as a path
Diverges(file) ==
  LET sp == Segs(CleanPath(file.path))
      sd == Segs(EntryFileNamePath(file))
  IN /\ sp # <<>>
     /\ sd # <<>>
     /\ sp \notin Prefixes(sd)
     /\ sd \notin Prefixes(sp)

\* path followed by the directory part of the name, under the workspace
PathThenNameDir(file) ==
  Loc(PathJoin(TempDir, CleanPath(file.path) \o <<"/">> \o EntryFileNamePath(file)))

\* the commands of each family, in the order of the runner's code
PythonOrder == <<"venv", "pip", "playwright", "pytest">>

CSharpOrder == <<"restore", "build", "playwright", "dotnetTest">>

\* the stages of the subprocesses spawned so far, in spawn order
SpawnedStages == [k \in 1..Len(procs) |-> procs[k].stage]

\* the files the first k entries of the manifest are written to
WrittenBy(k) ==
  {[loc |-> Loc(EntryFullPath(files[i])), content |-> files[i].content] :
     i \in 1..k}

\* the log event that forwards chunk c of the command of a stage
LogEvent(stage, c) ==
  Ev(IF stage \in TestStages THEN "test" ELSE "pip", stage, c)

\* every chunk the command wrote so far has its log event, in arrival order
ChunksForwarded(p) ==
  \A c \in 1..p.chunks :
    \E i \in 1..Len(Emitted) :
      /\ Emitted[i] = LogEvent(p.stage, c)
      /\ c > 1 => \E j \in 1..(i - 1) : Emitted[j] = LogEvent(p.stage, c - 1)

\* messages of 'error' events that hold the command's captured stderr
WithStderr == {"pip failed: stderr"}

(***************************************************************************)
(* Properties                                                              *)
(***************************************************************************)
\* C1: once the handler of an accepted request has finished, exactly one
\* terminal event ('complete' or 'error') has been emitted for the request.
C1_ExactlyOneTerminal ==
  pc = "done" => CountOf(Emitted, {"complete", "error"}) = 1

\* C2: the terminal event is last: nothing is passed to res.write after the
\* response ended, and no event of the stream follows a terminal event.
C2_TerminalIsLast ==
  /\ lateWrites = <<>>
  /\ \A i \in 1..Len(stream) : IsTerminal(stream[i]) => i = Len(stream)

\* C3: when the test process exits with a non-zero code and the report
\* artifact parses, the stream ends with a 'report' event followed by
\* 'complete' carrying that exit code, and holds no 'error' event.
C3_NonZeroExitStillReports ==
  (TestExited /\ child.exitCode \in ExitCodes \ {0} /\ artifact.kind = "ok")
    => /\ Len(stream) >= 2
       /\ stream[Len(stream) - 1].type = "report"
       /\ stream[Len(stream)] = Ev("complete", "exit", child.exitCode)
       /\ CountOf(Emitted, {"report"}) = 1
       /\ ~HasEvent(Emitted, {"error"})

C3_Witness ==
  /\ TestExited
  /\ child.exitCode \in ExitCodes \ {0}
  /\ artifact.kind = "ok"
  /\ pc = "done"

\* C4: when the dependency-install step (pip install, dotnet restore) has
\* closed with a non-zero code, the stream holds an 'error' event and no
\* 'report' event is emitted, then or later.
C4_InstallFailureIsError ==
  (\E k \in 1..Len(procs) :
      /\ procs[k].stage \in {"pip", "restore"}
      /\ procs[k].st = "closed"
      /\ procs[k].fate = "exits"
      /\ procs[k].exitCode # 0)
    => /\ HasEvent(stream, {"error"})
       /\ ~HasEvent(Emitted, {"report"})

C4_Witness ==
  /\ child.stage \in {"pip", "restore"}
  /\ child.st = "closed"
  /\ child.fate = "exits"
  /\ child.exitCode # 0
  /\ pc = "done"

\* C5: a materialised manifest without a dependency manifest file ends the
\* pipeline with a single 'error' stream event, no 'report', no 'complete'.
C5_MissingManifestIsStreamError ==
  (pc = "done" /\ idx = Len(files) /\ tempDir # "none" /\ NoDependencyManifest)
    => /\ CountOf(Emitted, {"error"}) = 1
       /\ ~HasEvent(Emitted, {"report", "complete"})

\* C6: when the report artifact is absent after the test process exited,
\* 'complete' is emitted with no 'report' before it and the stream holds at
\* least one log event ('pip' or 'test').
C6_AbsentReportLeavesLog ==
  (TestExited /\ artifact.kind \in {"absent", "notrx"})
    => /\ HasEvent(stream, {"complete"})
       /\ ~HasEvent(Emitted, {"report"})
       /\ HasEvent(stream, {"pip", "test"})

\* C7: in every terminal state of the handler the temp directory mkdtemp
\* created for the request has been removed.
C7_WorkspaceDestroyed ==
  (pc = "done" /\ tempDir # "none") => tempDir = "removed"

\* C8: every accepted request eventually has its response ended, whatever
\* its subprocesses do.
C8_AlwaysTerminates == <>ended

\* C9: every file the write loop writes lies under the workspace root.
C9_WrittenUnderRoot == \A f \in fsFiles : UnderRoot(f.loc)

\* C10: after a manifest without conflicts has been materialised, walking
\* the workspace yields exactly the entries' resolved paths, each with its
\* entry's content.
C10_WalkReproducesManifest ==
  (pc = "write" /\ idx = Len(files) /\ NoConflicts(files))
    => Walk = {[rel |-> ResolvedRel(files[i]), content |-> files[i].content] :
                 i \in 1..Len(files)}

\* C11: detectLanguage is total and deterministic: once the handler has
\* started, the detected family is csharp or python, and it is csharp exactly
\* for the manifests holding a C# mark, python for every other manifest (the
\* empty one and those matching no family included).
C11_DetectTotal ==
  pc # "start"
    => /\ language \in {"csharp", "python"}
       /\ language = (IF MarksCSharp(files) THEN "csharp" ELSE "python")

C11_Witness ==
  /\ pc # "start"
  /\ files # <<>>
  /\ ~hasCSharp(files)
  /\ ~hasPython(files)
  /\ language = "python"

\* C12: the engine of a run is one of chromium, firefox, webkit: the
\* requested one when it is one of the three, chromium otherwise; and that
\* selected value is what the engine-install command, the test command and
\* the status messages naming the engine are given.
C12_SelectedBrowserUsed ==
  pc # "start"
    => /\ selectedBrowser \in validBrowsers
       /\ selectedBrowser =
            (IF browser \in validBrowsers THEN browser ELSE "chromium")
       /\ \A k \in 1..Len(procs) :
            procs[k].stage \in {"playwright", "pytest", "dotnetTest"}
              => procs[k].browser = selectedBrowser
       /\ \A i \in 1..Len(Emitted) :
            Emitted[i].tag \in {"browser", "running"}
              => Emitted[i].browser = selectedBrowser

C12_Witness ==
  /\ browser = "edge"
  /\ child.stage \in TestStages
  /\ HasEvent(stream, {"complete"})

\* C13: every 'complete' event carries an integer exit code, the one the
\* test-execution process ended with, also when a signal ended it.
C13_CompleteCarriesExitCode ==
  \A i \in 1..Len(Emitted) :
    Emitted[i].type = "complete"
      => /\ Emitted[i].code # NullCode
         /\ Emitted[i].code = child.exitCode

\* C14: the engine installation is not fatal: once it has closed (with any
\* code) or failed to spawn, the 'Running tests' status has been emitted and
\* the test-execution process spawned, and the only 'error' event there can
\* be comes later, from a test process that could not be spawned.
C14_EngineInstallNonFatal ==
  \A k \in 1..Len(procs) :
    (procs[k].stage = "playwright" /\ procs[k].st # "running")
      => /\ k < Len(procs)
         /\ procs[k + 1].stage \in TestStages
         /\ \E i \in 1..Len(Emitted) :
              /\ Emitted[i] = EvFor("status", "running", 0, selectedBrowser)
              /\ \A j \in 1..Len(Emitted) :
                   Emitted[j].type = "error"
                     => j > i /\ procs[k + 1].fate = "nospawn"

C14_Witness ==
  /\ \E k \in 1..Len(procs) :
       procs[k].stage = "playwright" /\ procs[k].st = "errored"
  /\ child.stage \in TestStages
  /\ HasEvent(stream, {"complete"})

\* C15: when the test process has exited and the report artifact is missing
\* or malformed, no 'report' event is emitted and the stream ends with
\* 'complete' carrying the runner's exit code, without any 'error' event.
C15_BadArtifactNoReport ==
  (TestExited /\ artifact.kind \in {"absent", "notrx", "malformed"})
    => /\ ~HasEvent(Emitted, {"report"})
       /\ ~HasEvent(Emitted, {"error"})
       /\ stream # <<>>
       /\ stream[Len(stream)] = Ev("complete", "exit", child.exitCode)

\* C16: at most one 'report' event is emitted for a request; a 'report'
\* event is emitted only once the test-execution process has closed and is
\* directly followed by 'complete'; and when the process exited and its
\* report artifact parses, exactly one 'report' event is emitted.
C16_OneReportAfterClose ==
  /\ CountOf(Emitted, {"report"}) <= 1
  /\ \A i \in 1..Len(Emitted) :
       Emitted[i].type = "report"
         => /\ child.stage \in TestStages
            /\ child.st = "closed"
            /\ i < Len(Emitted)
            /\ Emitted[i + 1].type = "complete"
  /\ (TestExited /\ artifact.kind = "ok") => CountOf(Emitted, {"report"}) = 1

C16_Witness ==
  /\ TestExited
  /\ artifact.kind = "ok"
  /\ child.exitCode = 0
  /\ CountOf(stream, {"report"}) = 1

\* C17: in every emitted report each test entry's outcome is one of passed,
\* failed, skipped, whatever outcome values the artifact carries.
C17_OutcomeEnumerated ==
  \A i \in 1..Len(Emitted) :
    Emitted[i].type = "report"
      => \A t \in 1..Len(Emitted[i].tests) :
           Emitted[i].tests[t].outcome \in {"passed", "failed", "skipped"}

\* C18: when the client of a request clientLeftAt while a subprocess of the
\* request was running, no subprocess of the request is running any more,
\* no later stage has been spawned and the workspace directory is gone.
C18_DisconnectCleansUp ==
  clientLeftAt \in SubprocessStages
    => /\ \A k \in 1..Len(procs) : procs[k].st # "running"
       /\ pc \in {clientLeftAt, "done"}
       /\ tempDir \notin TempNames

C20_DivergingPathsConcatenated ==
  (pc = "write" /\ idx = 1 /\ Diverges(files[1]))
    => /\ Loc(EntryFullDir(files[1])) = PathThenNameDir(files[1])
       /\ PathThenNameDir(files[1]) \in fsDirs

\* C21: whenever some entry's name carries the .csproj extension the
\* detected family is csharp, whatever Python marks the manifest also holds
\* and in whatever order its entries come.
C21_CsprojTakesPrecedence ==
  (pc # "start"
     /\ \E i \in 1..Len(files) : EndsWith(ToLower(files[i].name), ".csproj"))
    => language = "csharp"

C21_Witness ==
  /\ pc # "start"
  /\ Len(files) = 2
  /\ files[1].name = <<"requirements.txt">>
  /\ files[2].name = <<"p", ".csproj">>
  /\ hasPython(files)
  /\ language = "csharp"

\* C22: the commands of a request start in the fixed order of its family,
\* each one only after the one before it has closed (or could not be
\* spawned at all), so at most one subprocess of the request is running.
C22_StagesSequential ==
  /\ SpawnedStages \in Prefixes(PythonOrder) \cup Prefixes(CSharpOrder)
  /\ \A k \in 1..(Len(procs) - 1) :
       \/ procs[k].st = "closed"
       \/ procs[k].st = "errored" /\ procs[k].fate = "nospawn"
  /\ Cardinality({k \in 1..Len(procs) : procs[k].st = "running"}) <= 1

C22_Witness ==
  /\ Len(procs) = 4
  /\ child.st = "running"
  /\ child.fate = "exits"
  /\ child.chunks > 0

\* C23: no command is spawned twice for a request, and a provisioning
\* command (venv, pip install, dotnet restore, dotnet build) that closed
\* with a code other than 0 or could not be spawned is the last subprocess
\* of the request: the handler has finished and no test process exists.
C23_NoRetryFailureStops ==
  /\ \A j, k \in 1..Len(procs) : j # k => procs[j].stage # procs[k].stage
  /\ \A k \in 1..Len(procs) :
       (/\ procs[k].stage \in {"venv", "pip", "restore", "build"}
        /\ \/ procs[k].st = "errored"
           \/ procs[k].st = "closed" /\ procs[k].exitCode # 0)
         => /\ k = Len(procs)
            /\ pc = "done"
            /\ ended

C23_Witness ==
  /\ child.stage = "build"
  /\ child.st = "closed"
  /\ child.exitCode \in ExitCodes \ {0}
  /\ pc = "done"

\* C24: the events emitted for a request match
\* status -> log* -> (report)? -> complete|error, status and log events
\* interleaving: the first event is a 'status', a terminal event is the last
\* event, and a 'report' is followed by nothing but the 'complete' right
\* after it.
C24_EventGrammar ==
  /\ Emitted # <<>> => Emitted[1].type = "status"
  /\ \A i \in 1..Len(Emitted) :
       /\ IsTerminal(Emitted[i]) => i = Len(Emitted)
       /\ Emitted[i].type = "report"
            => /\ i >= Len(Emitted) - 1
               /\ i < Len(Emitted) => Emitted[i + 1].type = "complete"
  /\ (pc = "done" /\ Emitted # <<>>) => IsTerminal(Emitted[Len(Emitted)])

\* C25: when the test-execution process could not be spawned, the stream
\* ends with the 'error' event of the spawn failure and neither a 'report'
\* nor a 'complete' event is emitted for the request.
C25_SpawnFailureIsFatal ==
  (child.stage \in TestStages /\ child.fate = "nospawn" /\ child.st # "running")
    => /\ stream # <<>>
       /\ stream[Len(stream)] = Ev("error", "spawn failed", 0)
       /\ ~HasEvent(Emitted, {"report", "complete"})

\* C26: when mkdtemp, mkdir or writeFile failed, the handler has finished
\* with no subprocess spawned, no event written, and no entry after the
\* failing one written to disk.
C26_MaterialisationFailureAborts ==
  (httpStatus = 500 /\ (tempDir = "none" \/ idx < Len(files)))
    => /\ pc = "done"
       /\ procs = <<>>
       /\ Emitted = <<>>
       /\ fsFiles \subseteq WrittenBy(idx)

C26_Witness ==
  /\ httpStatus = 500
  /\ Len(files) = 2
  /\ idx = 1
  /\ fsFiles # {}

\* C27: every chunk of output of every command of a request has been
\* forwarded as one log event ('pip' for provisioning, 'test' for the test
\* run), in arrival order.
C27_EveryChunkForwarded ==
  \A k \in 1..Len(procs) : ChunksForwarded(procs[k])

\* provisioning is over: the handler announced the test run
Provisioned ==
  \E i \in 1..Len(stream) :
    stream[i].type = "status" /\ stream[i].tag = "running"

\* the test-execution processes of the request
TestProcs == {k \in 1..Len(procs) : procs[k].stage \in TestStages}

\* the arguments ask for verbose output
Verbose(p) == p.args \cap {"-v", "--verbose", "--verbosity"} # {}

\* the arguments ask for short failure tracebacks
ShortTracebacks(p) == "--tb=short" \in p.args

\* the arguments select the engine the request was validated to
SelectsEngine(p) == "--browser=" \in p.args /\ p.browser = selectedBrowser

\* the arguments name a report location inside the workspace
ReportInWorkspace(p) ==
  /\ p.args \cap {"--json-report-file=", "--results-directory"} # {}
  /\ UnderRoot(p.reportPath)

\* the arguments hold the flag for a visible UI
HeadedFlag(p) == "--headed" \in p.args

TestArgsAsRequested(p) ==
  /\ Verbose(p)
  /\ ShortTracebacks(p)
  /\ SelectsEngine(p)
  /\ ReportInWorkspace(p)
  /\ HeadedFlag(p) <=> headed

\* C28: when pip install, dotnet restore or dotnet build closed with a code
\* other than 0 after writing to stderr, the 'error' event of the request
\* carries a message that includes the captured stderr.
C28_ErrorCarriesStderr ==
  \A k \in 1..Len(procs) :
    (/\ procs[k].stage \in {"pip", "restore", "build"}
     /\ procs[k].st = "closed"
     /\ procs[k].fate = "exits"
     /\ procs[k].exitCode # 0
     /\ procs[k].errChunks > 0)
      => \E i \in 1..Len(stream) :
           stream[i].type = "error" /\ stream[i].tag \in WithStderr

\* C29: once a request of either family is provisioned, exactly one
\* test-execution process has been spawned for it, and its arguments ask for
\* verbose output and short tracebacks, select the validated engine, name a
\* report path inside the workspace, and hold the visible-UI flag if and only
\* if headed is true.
C29_OneTestProcessWithArgs ==
  Provisioned =>
    /\ Cardinality(TestProcs) = 1
    /\ \A k \in TestProcs : TestArgsAsRequested(procs[k])

\* C30: in every report built from report.json, the duration of a test whose
\* record has a call-phase and a setup-phase duration is the call-phase
\* duration, 0 included; the setup-phase duration is the duration of a test
\* whose record has no call-phase duration.
C30_CallDurationPreferred ==
  \A i \in 1..Len(Emitted) :
    (Emitted[i].type = "report" /\ artifact.kind = "ok")
      => \A t \in 1..Len(artifact.tests) :
           LET rec == artifact.tests[t]
               rep == Emitted[i].tests[t]
           IN /\ (rec.call # NoDuration /\ rec.setup # NoDuration)
                   => rep.duration = rec.call
              /\ (rec.call = NoDuration /\ rec.setup # NoDuration)
                   => rep.duration = rec.setup

\* the counts of a per-test list of a report
Recount(tests) ==
  [total |-> Len(tests),
   passed |-> CountOutcome(tests, {"passed"}),
   failed |-> CountOutcome(tests, {"failed"}),
   skipped |-> CountOutcome(tests, {"skipped"})]

CountFields == {"total", "passed", "failed", "skipped"}

\* the aggregate fields an artifact has: for a TRX document skipped is
\* total - executed
OwnCount(art, f) ==
  IF f = "skipped" /\ art.summary.executed # NoCount
  THEN art.summary.total - art.summary.executed
  ELSE art.summary[f]

\* C31: in every report the counts total, passed, failed and skipped are the
\* artifact's own aggregate fields where it has them and the counts of the
\* report's per-test list where it has not; the total is not 0 while the
\* per-test list is not empty.
C31_SummaryCounts ==
  \A i \in 1..Len(Emitted) :
    Emitted[i].type = "report"
      => /\ \A f \in CountFields :
              Emitted[i].summary[f] =
                IF OwnCount(artifact, f) # NoCount
                THEN OwnCount(artifact, f)
                ELSE Recount(Emitted[i].tests)[f]
         /\ Emitted[i].tests # <<>> => Emitted[i].summary.total # 0


\* the string is two digits, ':', two digits, ':', two digits, '.', digits
IsClock(s) ==
  /\ Len(s) >= 10
  /\ s[3] = ":" /\ s[6] = ":" /\ s[9] = "."
  /\ \A i \in (1..Len(s)) \ {3, 6, 9} : s[i] \in Digits

\* the two-digit number at positions i and i + 1
Field(s, i) == 10 * DigitVal(s[i]) + DigitVal(s[i + 1])

\* HH * 3600 + MM * 60 + SS.fraction, in units
ClockSeconds(s) ==
  (Field(s, 1) * 3600 + Field(s, 4) * 60 + Field(s, 7)) * Scale
    + FracValue(SubSeq(s, 10, Len(s)))

ColonCount(s) == Cardinality({i \in 1..Len(s) : s[i] = ":"})

\* C32: the duration of every report entry built from a TRX document is
\* HH*3600 + MM*60 + SS.fraction seconds when the duration attribute has the
\* form HH:MM:SS.fraction, and 0 when the attribute does not split into
\* exactly three parts at ':'.
C32_ParseDuration ==
  \A i \in 1..Len(Emitted) :
    (Emitted[i].type = "report" /\ artifact.kind = "ok"
       /\ language = "csharp")
      => \A t \in 1..Len(artifact.tests) :
           LET str == artifact.tests[t].duration
               dur == Emitted[i].tests[t].duration
           IN /\ IsClock(str) => dur = ClockSeconds(str)
              /\ ColonCount(str) # 2 => dur = 0

\* a report whose entry has the duration 1.5 seconds, parsed from
\* 00:00:01.5
C32_Witness ==
  /\ language = "csharp"
  /\ artifact.kind = "ok"
  /\ Len(artifact.tests) = 1
  /\ artifact.tests[1].duration = TypicalDuration
  /\ \E i \in 1..Len(Emitted) :
       /\ Emitted[i].type = "report"
       /\ Emitted[i].tests[1].duration = Scale + Scale \div 2


\* the write loop has ended and the handler has gone on to a family
Routed == idx = Len(files) /\ pc \notin {"start", "mkdtemp", "write"}

\* C33: once the files of a manifest classified as csharp are written, the
\* C# pipeline has a project descriptor, and the project argument of dotnet,
\* resolved in the workspace, is the place the descriptor was written to.
C33_ProjectArgIsWrittenPath ==
  (Routed /\ language = "csharp")
    => /\ csprojIndex(files) # 0
       /\ Loc(PathJoin(TempDir, ProjectArg))
            = Loc(EntryFullPath(files[csprojIndex(files)]))


\* C34: in every report built from a TRX document an entry has an error
\* only if the result of its test holds a Message element, and the entry of
\* a test whose result holds one has that message as its error.
C34_OwnMessageOnly ==
  \A i \in 1..Len(Emitted) :
    (Emitted[i].type = "report" /\ artifact.kind = "ok"
       /\ language = "csharp")
      => \A t \in 1..Len(artifact.tests) :
           /\ Emitted[i].tests[t].error # NoMessage
                => artifact.tests[t].message # NoMessage
           /\ artifact.tests[t].message # NoMessage
                => Emitted[i].tests[t].error = artifact.tests[t].message


\* the outcome of a response that has ended: an HTTP 500 JSON body and no
\* event at all when nothing had been written (the workspace could not be
\* materialised, or the pipeline failed before its first command), else a
\* stream whose single 'error' event, if it has one, is the last thing
\* written before the end
EndedByErrorOnce ==
  /\ httpStatus = 500 => ended /\ Emitted = <<>>
  /\ (ended /\ stream = <<>>) => httpStatus = 500 /\ Emitted = <<>>
  /\ (ended /\ (tempDir = "none" \/ idx < Len(files) \/ procs = <<>>))
       => httpStatus = 500 /\ Emitted = <<>>
  /\ (ended /\ stream # <<>>)
       => /\ httpStatus = 0
          /\ IsTerminal(stream[Len(stream)])
          /\ HasEvent(stream, {"error"})
               => /\ CountOf(Emitted, {"error"}) = 1
                  /\ stream[Len(stream)].type = "error"

\* a response that has ended is not ended or written a second time
EndedStays ==
  ended => /\ ended'
           /\ stream' = stream
           /\ httpStatus' = httpStatus
           /\ headersSent' = headersSent
           /\ pc' = pc

\* C35: a fatal error after the first stream event gives exactly one 'error'
\* event and then the end of the response; a fatal error before any stream
\* event gives an HTTP 500 JSON response and no stream event; either way the
\* response is ended once.
C35_ErrorEndsOnce == [](EndedByErrorOnce) /\ [][EndedStays]_vars

\* a response that started streaming and ended with its single 'error' event
C35_Witness ==
  /\ ended
  /\ httpStatus = 0
  /\ Len(stream) >= 2
  /\ stream[1].type = "status"
  /\ stream[Len(stream)].type = "error"
  /\ CountOf(stream, {"error"}) = 1


\* C36: for every entry that run-tests wrote and download-zip archived, the
\* name of the archive entry is the path, relative to the workspace, that
\* the entry was written to.
C36_ZipLayoutAsExecuted ==
  \A i \in 1..idx :
    i <= Len(archive)
      => Loc(archive[i]) = RelOf(Loc(EntryFullPath(files[i])))

\* C37: a request whose files field is missing or not an array is answered
\* with HTTP 400 and has no other effect: no workspace directory, no file,
\* no subprocess, no event.
C37_NotArrayRejected ==
  ~IsArray(filesType)
    => /\ pc \in {"start", "done"}
       /\ pc = "done" => httpStatus = 400 /\ ended
       /\ tempDir = "none"
       /\ fsDirs = Prefixes(<<<<"tmp">>>>)
       /\ fsFiles = {}
       /\ procs = <<>>
       /\ Emitted = <<>>

\* a request with an object for files, answered with HTTP 400
C37_Witness ==
  /\ filesType = "object"
  /\ pc = "done"
  /\ httpStatus = 400
  /\ ended


\* runTests has run to its end
UiEnded == ui.phase = "ended" /\ ~ui.running

\* C38: when the frontend has read the response to its end, it has handled
\* every event of the stream once and in order.
C38_EveryEventHandled ==
  (UiEnded /\ ~ui.fetchFailed)
    => ui.seen = [i \in 1..Len(stream) |-> i]

\* the event that ended the stream of a response
EndedWith(type) ==
  /\ ~ui.fetchFailed
  /\ stream # <<>>
  /\ stream[Len(stream)].type = type

\* C39: after a run has ended, testStatus is 'passed' exactly when the
\* stream ended with 'complete' and exit code 0, 'failed' exactly when it
\* ended with 'complete' and another exit code, 'error' exactly when the run
\* ended with an 'error' event or fetch failed; it is not null.
C39_StatusMatchesTerminal ==
  UiEnded
    => /\ ui.status = "passed"
            <=> (EndedWith("complete") /\ stream[Len(stream)].code = 0)
       /\ ui.status = "failed"
            <=> (EndedWith("complete") /\ stream[Len(stream)].code # 0)
       /\ ui.status = "error" <=> (EndedWith("error") \/ ui.fetchFailed)
       /\ ui.status # "null"

====
